---------------------------- MODULE Spec2Model ----------------------------
(***************************************************************************)
(* A model of the sonarwhal Chrome-debugging-protocol connector           *)
(* (src/unnamed/part_000, class Connector) and of the content-type        *)
(* resolver it calls (src/unnamed/part_001, getContentTypeData).          *)
(*                                                                         *)
(* The connector is single-threaded and event-driven: a handler runs       *)
(* until it reaches an await, and other handlers run while it is           *)
(* suspended.  Every handler invocation is a task with a program counter;  *)
(* one action is the code between two suspension points.                   *)
(*                                                                         *)
(* The module holds several specifications over one set of variables;     *)
(* they share the actions and differ in the scenario (the inputs the      *)
(* browser may deliver), which Init stores in scn:                         *)
(*   SpecCT        the content-type resolver, a pure function, applied to *)
(*                 inputs drawn from bounded sets;                         *)
(*   SpecRedir     request-sent events along long redirect chains;         *)
(*   SpecTraverse  the page-load handler on every small page;              *)
(*   SpecQueue     network events racing the page-load handler;            *)
(*   SpecHops      a redirected request and its response;                  *)
(*   SpecLoop      a target that redirects to itself, under fairness;      *)
(*   SpecManifest  a page with a manifest link and the manifest's request; *)
(*   SpecSession   collect up to the navigation request, then close;       *)
(*   SpecEval      the same with one evaluate call, the watchdog fair;     *)
(*   SpecLife      one page load with a resource arriving at any time;     *)
(*   SpecRoot      the target's request, response and loading failure;     *)
(*   SpecFavicon   a request for the root favicon or another resource;     *)
(*   SpecRepeat    the target's URL requested and answered twice;          *)
(*   SpecClassify  the responses of the target and of one resource;        *)
(*   SpecElement   one resource that may or may not be traced to an        *)
(*                 element;                                                *)
(*   SpecParser    the search for the element of a URL, a pure function;   *)
(*   SpecReload    a page that fires its load event more than once;        *)
(*   SpecFailure   a request of the target or of a resource that fails;    *)
(*   SpecDrain     queued events and the page-load handler, under          *)
(*                 fairness.                                               *)
(***************************************************************************)
EXTENDS Integers, Sequences, FiniteSets, TLC

VARIABLES
    ctIn,       \* the arguments of one getContentTypeData call
    ctOut,      \* its return value {charset, mediaType}, or CtUnset
    corr,       \* one getElementFromParser call: the document, the parts of
                \* the URL, the queries made and the element returned
    scn,        \* the scenario: what the browser may deliver (never changes)
    wire,       \* the browser's side of a request id: "none", "sent",
                \* "responded" or "failed"
    finalHref,  \* Connector._finalHref
    requests,   \* Connector._requests: requestId -> request-sent params
    redirects,  \* Connector._redirects: the RedirectManager's map
    errorWithPage,          \* Connector._errorWithPage
    dom,        \* Connector._dom: "none", "created" (not loaded yet), "loaded"
    pending,    \* Connector._pendingResponseReceived: the queued thunks
    manifestIsSpecified,    \* Connector._manifestIsSpecified
    faviconLoaded,          \* Connector._faviconLoaded
    targetNetworkData,      \* the assignments made to _targetNetworkData
    tasks,      \* the live invocations of the network handlers
    nSeq,       \* the number of invocations that suspended, queued or emitted
    loads,      \* the invocations of the page-load handler
    collectPc,  \* where collect's async function stands
    netOn,      \* the network handlers are registered and the domain enabled
    callbacks,  \* the calls of collect's completion callback, in order
    emitted,    \* the events handed to the emitter, in order
    errorLog,   \* the logger.error calls made: <<kind, url>>
    hung,       \* the event loop is stuck in a loop that never ends
    tabs,       \* Connector._tabs: the ids of the tracked tabs, in order
    client,     \* Connector._client: "none" (undefined), "open" or "closed"
    comms,      \* the locals of initiateComms and getClient and the calls
                \* they made
    closing,    \* where close() stands and the calls it made
    evalP       \* one evaluate call: its promise, watchdog and round trip

ctVars == <<ctIn, ctOut>>
fieldVars == <<finalHref, requests, redirects, errorWithPage, dom, pending,
               manifestIsSpecified, faviconLoaded, targetNetworkData>>
connVars == <<finalHref, requests, redirects, errorWithPage, dom, pending,
              manifestIsSpecified, faviconLoaded, targetNetworkData,
              tasks, nSeq, loads, collectPc, netOn, callbacks, emitted,
              errorLog, hung, wire, tabs, client, comms, closing, evalP>>
vars == <<ctIn, ctOut, corr, scn, finalHref, requests, redirects, errorWithPage,
          dom, pending, manifestIsSpecified, faviconLoaded, targetNetworkData,
          tasks, nSeq, loads, collectPc, netOn, callbacks, emitted,
          errorLog, hung, wire, tabs, client, comms, closing, evalP>>

\* JavaScript's null / undefined, for values that are otherwise strings.
Null == "<null>"

(***************************************************************************)
(* The content-type resolver (part_001).                                   *)
(*                                                                         *)
(* Strings are drawn from finite universes; the library calls              *)
(* (file-type, is-svg, mime-db, content-type's parse) and the helpers of   *)
(* utils/misc are tables over these universes.                             *)
(***************************************************************************)

\* utils/misc normalizeString: null for a missing value, else the value
\* lower-cased and trimmed.
NormalizeString(s) ==
    CASE s = Null -> Null
      [] s = "SCRIPT" -> "script"
      [] s = "LINK" -> "link"
      [] s = "IMG" -> "img"
      [] s = " Text/JavaScript " -> "text/javascript"
      [] s = "Module" -> "module"
      [] s = "TEXT/HTML; Charset=ISO-8859-1" -> "text/html; charset=iso-8859-1"
      [] s = " text/css " -> "text/css"
      [] s = "UTF-8" -> "utf-8"
      [] OTHER -> s

\* The DOM elements a response may be attributed to; NoElement is null.
NoElement == [nodeName |-> Null, type |-> Null, rel |-> Null]

ScriptTypes ==
    {Null, "", "text/javascript", " Text/JavaScript ", "application/x-javascript",
     "module", "Module", "text/plain", "application/ld+json"}

LinkRels == {Null, "stylesheet", "manifest", "icon", "Stylesheet"}

CtElements ==
    {NoElement}
    \cup {[nodeName |-> "SCRIPT", type |-> t, rel |-> Null] : t \in ScriptTypes}
    \cup {[nodeName |-> "LINK", type |-> Null, rel |-> r] : r \in LinkRels}
    \cup {[nodeName |-> "IMG", type |-> Null, rel |-> Null]}

validJavaScriptMediaTypes ==
    {"application/ecmascript", "application/javascript", "application/x-ecmascript",
     "application/x-javascript", "text/ecmascript", "text/javascript",
     "text/javascript1.0", "text/javascript1.1", "text/javascript1.2",
     "text/javascript1.3", "text/javascript1.4", "text/javascript1.5",
     "text/jscript", "text/livescript", "text/x-ecmascript", "text/x-javascript"}

determineMediaTypeForScript(element) ==
    LET typeAttribute == NormalizeString(element.type)
    IN  IF \/ typeAttribute = Null
           \/ typeAttribute = ""
           \/ typeAttribute \in validJavaScriptMediaTypes
           \/ typeAttribute = "module"
        THEN "text/javascript"
        ELSE Null

determineMediaTypeBasedOnElement(element) ==
    LET nodeName == NormalizeString(element.nodeName)
    IN  IF nodeName = Null THEN Null
        ELSE IF nodeName = "script" THEN determineMediaTypeForScript(element)
        ELSE IF nodeName = "link"
             THEN CASE element.rel = "stylesheet" -> "text/css"
                    [] element.rel = "manifest" -> "application/manifest+json"
                    [] OTHER -> Null
        ELSE Null

\* mime-db, as far as the universes below reach: the media type whose
\* extension list holds the extension (undefined, here Null, when none does).
getMediaTypeBasedOnFileExtension(fileExtension) ==
    CASE fileExtension = "png" -> "image/png"
      [] fileExtension = "json" -> "application/json"
      [] fileExtension = "txt" -> "text/plain"
      [] fileExtension = "pdf" -> "application/pdf"
      [] fileExtension = "xml" -> "application/xml"
      [] fileExtension = "zip" -> "application/zip"
      [] OTHER -> Null

\* The resources (URLs) a response may have.
CtResources ==
    {"https://example.test/", "https://example.test/a.png",
     "https://example.test/a.html", "https://example.test/a.js",
     "https://example.test/a.svg", "https://example.test/a.json",
     "https://example.test/a.webmanifest", "https://example.test/a.qqq"}

\* utils/misc getFileExtension: the extension of the resource's path.
getFileExtension(resource) ==
    CASE resource = "https://example.test/a.png" -> "png"
      [] resource = "https://example.test/a.html" -> "html"
      [] resource = "https://example.test/a.js" -> "js"
      [] resource = "https://example.test/a.svg" -> "svg"
      [] resource = "https://example.test/a.json" -> "json"
      [] resource = "https://example.test/a.webmanifest" -> "webmanifest"
      [] resource = "https://example.test/a.qqq" -> "qqq"
      [] OTHER -> ""

determineMediaTypeBasedOnFileExtension(resource) ==
    LET fileExtension == getFileExtension(resource)
    IN  IF fileExtension = "" \/ fileExtension = Null THEN Null
        ELSE CASE fileExtension \in {"html", "htm"} -> "text/html"
               [] fileExtension = "xhtml" -> "application/xhtml+xml"
               [] fileExtension = "js" -> "text/javascript"
               [] fileExtension = "css" -> "text/css"
               [] fileExtension = "ico" -> "image/x-icon"
               [] fileExtension = "webmanifest" -> "application/manifest+json"
               [] fileExtension \in {"jpeg", "jpg"} -> "image/jpeg"
               [] fileExtension = "png" -> "image/png"
               [] fileExtension = "gif" -> "image/gif"
               [] fileExtension = "svg" -> "image/svg+xml"
               [] fileExtension = "webp" -> "image/webp"
               [] fileExtension = "woff2" -> "font/woff2"
               [] fileExtension = "woff" -> "font/woff"
               [] fileExtension = "ttf" -> "font/ttf"
               [] fileExtension = "otf" -> "font/otf"
               [] OTHER -> getMediaTypeBasedOnFileExtension(fileExtension)

\* The raw bodies, by what the sniffers see in them: Null is a missing
\* buffer, "empty" a buffer of length 0.
CtRawContents == {Null, "empty", "png-bytes", "zip-bytes", "svg-text", "plain-text"}

\* file-type: the extension of the detected signature, or Null.
fileType(rawContent) ==
    CASE rawContent = "png-bytes" -> "png"
      [] rawContent = "zip-bytes" -> "zip"
      [] OTHER -> Null

\* is-svg
isSvg(rawContent) == rawContent = "svg-text"

determineMediaTypeBasedOnFileType(rawContent) ==
    LET detectedFileType == fileType(rawContent)
    IN  IF detectedFileType # Null
        THEN getMediaTypeBasedOnFileExtension(detectedFileType)
        ELSE IF rawContent # Null /\ isSvg(rawContent) THEN "image/svg+xml"
        ELSE Null

\* The values of the response's content-type header; Null is a response
\* without the header.
CtHeaders ==
    {Null, "", "text/html; charset", "text/html", "text/plain",
     "TEXT/HTML; Charset=ISO-8859-1", "text/html; charset=utf-8",
     "text/html; charset=\"\"",
     "application/octet-stream", " text/css ", "text/css; charset=iso-8859-1",
     "image/png; charset=utf-8", "application/json; charset=utf-8",
     "application/json; charset=utf-16", "image/svg+xml; charset=windows-1252",
     "application/javascript"}

NoContentType == [type |-> Null, charset |-> Null]

\* content-type's parse, on a normalized header value: the media type and
\* the charset parameter (Null when the parameter is absent), or
\* NoContentType for a value outside the header's grammar (parse throws).
parse(value) ==
    CASE value = "text/html" -> [type |-> "text/html", charset |-> Null]
      [] value = "text/plain" -> [type |-> "text/plain", charset |-> Null]
      [] value = "text/html; charset=iso-8859-1" ->
            [type |-> "text/html", charset |-> "iso-8859-1"]
      [] value = "text/html; charset=utf-8" ->
            [type |-> "text/html", charset |-> "utf-8"]
      [] value = "text/html; charset=\"\"" ->
            [type |-> "text/html", charset |-> ""]
      [] value = "application/octet-stream" ->
            [type |-> "application/octet-stream", charset |-> Null]
      [] value = "text/css" -> [type |-> "text/css", charset |-> Null]
      [] value = "text/css; charset=iso-8859-1" ->
            [type |-> "text/css", charset |-> "iso-8859-1"]
      [] value = "image/png; charset=utf-8" ->
            [type |-> "image/png", charset |-> "utf-8"]
      [] value = "application/json; charset=utf-8" ->
            [type |-> "application/json", charset |-> "utf-8"]
      [] value = "application/json; charset=utf-16" ->
            [type |-> "application/json", charset |-> "utf-16"]
      [] value = "image/svg+xml; charset=windows-1252" ->
            [type |-> "image/svg+xml", charset |-> "windows-1252"]
      [] value = "application/javascript" ->
            [type |-> "application/javascript", charset |-> Null]
      [] OTHER -> NoContentType

parseContentTypeHeader(header) ==
    LET contentTypeHeaderValue == NormalizeString(header)
    IN  IF contentTypeHeaderValue = Null THEN NoContentType
        ELSE IF contentTypeHeaderValue = "" THEN NoContentType
        ELSE parse(contentTypeHeaderValue)

\* mime-db's charset of a media type, normalized; Null when it has none.
mimeDBCharset(mediaType) ==
    CASE mediaType = "application/json" -> NormalizeString("UTF-8")
      [] mediaType = "application/manifest+json" -> NormalizeString("UTF-8")
      [] mediaType = "text/css" -> NormalizeString("UTF-8")
      [] OTHER -> Null

isTextMediaType(mediaType) ==
    \/ mediaType \in   \* /application\/(?:javascript|json|x-javascript|xml)/i
         {"application/javascript", "application/json", "application/x-javascript",
          "application/xml"}
    \/ mediaType \in   \* /application\/.*\+(?:json|xml)/i
         {"application/manifest+json", "application/xhtml+xml", "application/ld+json"}
    \/ mediaType = "image/svg+xml"              \* /image\/svg\+xml/i
    \/ mediaType \in                            \* /text\/.*/i
         {"text/html", "text/css", "text/javascript", "text/plain"}

charsetAliases(originalCharset) ==
    IF originalCharset = "iso-8859-1" THEN "latin1" ELSE Null

\* JavaScript truthiness of a string-or-null value.
Truthy(s) == s # Null /\ s # ""

\* determineCharset with lines 74 and 91 changed to prefer the media type's
\* own charset (or utf-8) over the one the server declared.
determineCharset_PreferDetermined(originalCharset, mediaType) ==
    LET alias == charsetAliases(originalCharset)
        defaultCharset == IF Truthy(alias) THEN alias ELSE originalCharset
        determinedCharset == mimeDBCharset(mediaType)
    IN  IF Truthy(defaultCharset) /\ determinedCharset = defaultCharset
        THEN defaultCharset
        ELSE IF ~isTextMediaType(mediaType) THEN Null
        ELSE IF Truthy(determinedCharset) THEN determinedCharset
        ELSE "utf-8"

\* determineCharset without the test of lines 66-68: a binary media type
\* gets a charset like a text one.
determineCharset_NoBinaryTest(originalCharset, mediaType) ==
    LET alias == charsetAliases(originalCharset)
        defaultCharset == IF Truthy(alias) THEN alias ELSE originalCharset
        determinedCharset == mimeDBCharset(mediaType)
    IN  IF Truthy(defaultCharset) /\ determinedCharset = defaultCharset
        THEN defaultCharset
        ELSE IF Truthy(defaultCharset) THEN defaultCharset
        ELSE IF Truthy(determinedCharset) THEN determinedCharset
        ELSE "utf-8"

determineCharset(originalCharset, mediaType) ==
    LET alias == charsetAliases(originalCharset)
        defaultCharset == IF Truthy(alias) THEN alias ELSE originalCharset
        determinedCharset == mimeDBCharset(mediaType)
    IN  IF Truthy(defaultCharset) /\ determinedCharset = defaultCharset
        THEN defaultCharset
        ELSE IF ~isTextMediaType(mediaType) THEN Null
        ELSE IF Truthy(defaultCharset) THEN defaultCharset
        ELSE IF Truthy(determinedCharset) THEN determinedCharset
        ELSE "utf-8"

\* a || b for string-or-null values.
OrElse(a, b) == IF Truthy(a) THEN a ELSE b

\* getContentTypeData with the element layer moved behind the sniffing layer.
getContentTypeData_SniffFirst(element, resource, rawContent, header) ==
    LET contentType == parseContentTypeHeader(header)
        mediaType ==
            OrElse(determineMediaTypeBasedOnFileType(rawContent),
              OrElse(determineMediaTypeBasedOnElement(element),
                OrElse(determineMediaTypeBasedOnFileExtension(resource),
                       contentType.type)))
    IN  [charset |-> determineCharset(contentType.charset, mediaType),
         mediaType |-> mediaType]

\* getContentTypeData with the header layer moved before the extension layer.
getContentTypeData_HeaderFirst(element, resource, rawContent, header) ==
    LET contentType == parseContentTypeHeader(header)
        mediaType ==
            OrElse(determineMediaTypeBasedOnElement(element),
              OrElse(determineMediaTypeBasedOnFileType(rawContent),
                OrElse(contentType.type,
                       determineMediaTypeBasedOnFileExtension(resource))))
    IN  [charset |-> determineCharset(contentType.charset, mediaType),
         mediaType |-> mediaType]

getContentTypeData(element, resource, rawContent, header) ==
    LET contentType == parseContentTypeHeader(header)
        originalCharset == contentType.charset
        originalMediaType == contentType.type
        mediaType ==
            OrElse(determineMediaTypeBasedOnElement(element),
              OrElse(determineMediaTypeBasedOnFileType(rawContent),
                OrElse(determineMediaTypeBasedOnFileExtension(resource),
                       originalMediaType)))
    IN  [charset |-> determineCharset(originalCharset, mediaType),
         mediaType |-> mediaType]

CtUnset == [charset |-> "<unset>", mediaType |-> "<unset>"]

CtInputs ==
    [element : CtElements, resource : CtResources,
     rawContent : CtRawContents, header : CtHeaders]

(***************************************************************************)
(* The connector (part_000).                                               *)
(*                                                                         *)
(* A URL is <<origin, path>>: origins and paths are numbers, path 0 is     *)
(* "/" and path FaviconPath is "/favicon.ico".                             *)
(***************************************************************************)

FaviconPath == 1

Url(origin, path) == <<origin, path>>

\* An absent URL: a request-sent event without redirectResponse, hops[0] of
\* an empty hop list.
NoUrl == <<0 - 1, 0 - 1>>

\* collect's target; it has no fragment, so _href and the first _finalHref
\* are the same URL.
Target == Url(0, 0)

href == Target

\* The path of the href of the page's link rel=manifest (line 488) and of its
\* link rel=icon (line 701).
ManifestPath == 2

IconPath == 3

\* A relative URL, not resolved against any origin.
Relative(path) == Url(0 - 1, path)

\* url.resolve(base, '/favicon.ico')
resolveFavicon(base) == Url(base[1], FaviconPath)

\* The limit of line 211.
MaxHops == 10

(***************************************************************************)
(* RedirectManager (connectors/utils/redirects): a map from a URL to the   *)
(* URL that redirected to it, as a set of <<hop, origin>> pairs with one   *)
(* pair per hop.  calculate walks the map back from a URL and returns the  *)
(* URLs it passes, oldest first.                                           *)
(***************************************************************************)

RedirectHas(red, u) == \E p \in red : p[1] = u

RedirectGet(red, u) == (CHOOSE p \in red : p[1] = u)[2]

RedirectAdd(red, hop, origin) ==
    IF hop = origin THEN red
    ELSE {p \in red : p[1] # hop} \cup {<<hop, origin>>}

RECURSIVE CalcWalk(_, _, _)
CalcWalk(red, u, fuel) ==
    IF fuel = 0 \/ ~RedirectHas(red, u) THEN <<>>
    ELSE CalcWalk(red, RedirectGet(red, u), fuel - 1) \o <<RedirectGet(red, u)>>

\* The walk from u never ends: it visits more URLs than the map has keys.
Cyclic(red, u) == Len(CalcWalk(red, u, Cardinality(red) + 1)) > Cardinality(red)

RedirectCalculate(red, u) == CalcWalk(red, u, Cardinality(red))

calculate(u) == RedirectCalculate(redirects, u)

\* Recording hop <- origin would close a cycle of two or more URLs.
ClosesCycle(red, hop, origin) ==
    /\ hop # origin
    /\ \/ Cyclic({p \in red : p[1] # hop}, origin)
       \/ \E i \in 1..Len(RedirectCalculate({p \in red : p[1] # hop}, origin)) :
             RedirectCalculate({p \in red : p[1] # hop}, origin)[i] = hop

(***************************************************************************)
(* Tasks and events.                                                       *)
(***************************************************************************)

\* The request ids the browser uses.
MaxRequestIds == 2

RequestIds == 1..MaxRequestIds

NoRequest == [url |-> NoUrl, initiator |-> ""]

\* A handler invocation: the event's params, where the handler stands (pc)
\* and its local variables.  seq numbers the invocations in arrival order.
\* queued, atDom and stable are history: the invocation was pushed to the
\* pending queue; the value of dom when the event arrived; no redirect was
\* recorded since it arrived.
NewTask(kind, p) ==
    [seq |-> nSeq + 1, kind |-> kind, requestId |-> p.requestId, url |-> p.url,
     type |-> p.type, initiator |-> p.initiator, redirect |-> p.redirect,
     status |-> p.status,
     pc |-> "start", queued |-> FALSE, atDom |-> dom, stable |-> TRUE,
     originalUrl |-> NoUrl, eventName |-> "", element |-> 0, hops |-> <<>>]

\* What an emitted event records of the invocation that emitted it.
ByTask(t) ==
    [seq |-> t.seq, kind |-> t.kind, requestId |-> t.requestId, url |-> t.url,
     type |-> t.type, redirect |-> t.redirect, queued |-> t.queued,
     atDom |-> t.atDom, stable |-> t.stable]

\* The same for an event no network handler emitted.
NoBy ==
    [seq |-> 0, kind |-> "none", requestId |-> 0, url |-> NoUrl, type |-> "",
     redirect |-> NoUrl, queued |-> FALSE, atDom |-> "", stable |-> TRUE]

\* An emitted event: its name and the fields of its payload the model
\* follows (resource, response.hops, request.url, element); node is the DOM
\* node of a traversal event; map is history: the redirect tracker's map when
\* the event was emitted.
Event(name, resource, by, hops, requrl, element, node) ==
    [name |-> name, resource |-> resource, by |-> by, hops |-> hops,
     requrl |-> requrl, element |-> element, node |-> node,
     map |-> redirects]

LifeEvent(name, resource) == Event(name, resource, NoBy, <<>>, NoUrl, 0, 0)

\* rootFaviconRequestOrResponse: params.request || params.response exists
\* for request-sent and response-received params only.
rootFaviconRequestOrResponse(t) ==
    /\ t.kind \in {"request", "response"}
    /\ resolveFavicon(finalHref) = t.url

\* A handler is in a synchronous stretch: nothing else runs until it reaches
\* an await or returns.
TaskBusy == \E t \in tasks : t.pc = "start"

\* A drain is between two replays (line 735): the next thunk is called before
\* anything else runs.
DrainBusy ==
    \E k \in 1..Len(loads) :
        /\ loads[k].pc = "drainWait"
        /\ ~\E t \in tasks : /\ t.seq = loads[k].cur /\ t.kind # "request"
                             /\ t.pc # "threw"

\* The event loop is inside a synchronous stretch.
Busy == TaskBusy \/ DrainBusy

\* The other live invocations, told that the redirect map changed.
Others(t, changed) ==
    {[x EXCEPT !.stable = x.stable /\ ~changed] : x \in tasks \ {t}}

(***************************************************************************)
(* onRequestWillBeSent (lines 189-240).                                    *)
(***************************************************************************)

\* Line 192.
StoreRequest(t) ==
    requests' = [requests EXCEPT ![t.requestId] =
                    [url |-> t.url, initiator |-> t.initiator]]

\* The self-redirect is logged and then followed all the same: the walk over
\* a chain that leads back to itself never returns.
RedirectLoop_Spin(t) ==
    /\ errorLog' = errorLog \cup {<<"loop", t.url>>}
    /\ hung' = TRUE
    /\ UNCHANGED <<redirects, finalHref, tasks, nSeq, emitted>>

\* Lines 202-206: the redirect is an infinite loop; logged, nothing recorded.
RedirectLoop(t) ==
    /\ errorLog' = errorLog \cup {<<"loop", t.url>>}
    /\ tasks' = Others(t, FALSE)
    /\ UNCHANGED <<redirects, finalHref, nSeq, emitted, hung>>

\* Line 208 on a map with a cycle: calculate never returns.
RedirectHang(t) ==
    /\ hung' = TRUE
    /\ UNCHANGED <<redirects, finalHref, errorLog, tasks, nSeq, emitted>>

\* Lines 211-215: too many redirects; logged, nothing recorded.
RedirectLimit(t) ==
    /\ errorLog' = errorLog \cup {<<"limit", t.url>>}
    /\ tasks' = Others(t, FALSE)
    /\ UNCHANGED <<redirects, finalHref, nSeq, emitted, hung>>

\* Lines 218-225: the redirect is recorded; hops is the list of line 208,
\* computed before the redirect was added.
RedirectAccept(t, hops) ==
    /\ redirects' = RedirectAdd(redirects, t.url, t.redirect)
    /\ finalHref' = IF Len(hops) > 0 /\ hops[1] = href THEN t.url ELSE finalHref
    /\ tasks' = Others(t, redirects' # redirects)
    /\ UNCHANGED <<errorLog, nSeq, emitted, hung>>

\* Line 237, for the root favicon: no event.
RequestSilent(t) ==
    /\ tasks' = Others(t, FALSE)
    /\ UNCHANGED <<redirects, finalHref, errorLog, nSeq, emitted, hung>>

\* Lines 228-239: the start event is emitted and awaited.
RequestStart(t) ==
    /\ emitted' = Append(emitted,
            Event(IF href = t.url THEN "targetfetch::start" ELSE "fetch::start",
                  t.url, ByTask(t), <<>>, NoUrl, 0, 0))
    /\ tasks' = Others(t, FALSE) \cup {[t EXCEPT !.pc = "emit"]}
    /\ nSeq' = nSeq + 1
    /\ UNCHANGED <<redirects, finalHref, errorLog, hung>>

\* onRequestWillBeSent with the return of line 225 missing: after the
\* bookkeeping of an accepted redirect it goes on to emit the start event.
OnRequestWillBeSent_FallThrough(t) ==
    /\ t.kind = "request" /\ t.pc = "start" /\ ~hung
    /\ StoreRequest(t)
    /\ IF t.redirect # NoUrl /\ t.url = t.redirect THEN RedirectLoop(t)
       ELSE IF t.redirect # NoUrl /\ Cyclic(redirects, t.url) THEN RedirectHang(t)
       ELSE IF t.redirect # NoUrl /\ Len(calculate(t.url)) >= MaxHops
       THEN RedirectLimit(t)
       ELSE IF t.redirect # NoUrl
       THEN /\ redirects' = RedirectAdd(redirects, t.url, t.redirect)
            /\ finalHref' = finalHref
            /\ emitted' = Append(emitted,
                    Event("fetch::start", t.url, ByTask(t), <<>>, NoUrl, 0, 0))
            /\ tasks' = Others(t, TRUE) \cup {[t EXCEPT !.pc = "emit"]}
            /\ nSeq' = nSeq + 1
            /\ UNCHANGED <<errorLog, hung>>
       ELSE IF rootFaviconRequestOrResponse(t) THEN RequestSilent(t)
       ELSE RequestStart(t)

\* onRequestWillBeSent without the self-redirect check of lines 202-206.
OnRequestWillBeSent_NoLoopCheck(t) ==
    /\ t.kind = "request" /\ t.pc = "start" /\ ~hung
    /\ StoreRequest(t)
    /\ IF t.redirect # NoUrl /\ Cyclic(redirects, t.url) THEN RedirectHang(t)
       ELSE IF t.redirect # NoUrl /\ Len(calculate(t.url)) >= MaxHops
       THEN RedirectLimit(t)
       ELSE IF t.redirect # NoUrl THEN RedirectAccept(t, calculate(t.url))
       ELSE IF rootFaviconRequestOrResponse(t) THEN RequestSilent(t)
       ELSE RequestStart(t)

OnRequestWillBeSent(t) ==
    /\ t.kind = "request" /\ t.pc = "start" /\ ~hung
    /\ StoreRequest(t)
    /\ IF t.redirect # NoUrl /\ t.url = t.redirect THEN RedirectLoop(t)
       ELSE IF t.redirect # NoUrl /\ Cyclic(redirects, t.url) THEN RedirectHang(t)
       ELSE IF t.redirect # NoUrl /\ Len(calculate(t.url)) >= MaxHops
       THEN RedirectLimit(t)
       ELSE IF t.redirect # NoUrl THEN RedirectAccept(t, calculate(t.url))
       ELSE IF rootFaviconRequestOrResponse(t) THEN RequestSilent(t)
       ELSE RequestStart(t)

\* Variables no network handler writes.
lifeVars == <<loads, collectPc, netOn, callbacks>>
sessionVars == <<tabs, client, comms, closing, evalP>>
fixedVars == <<ctIn, ctOut, corr, scn, wire, sessionVars>>
inputVars == <<ctIn, ctOut, corr, scn, sessionVars>>

\* The browser delivers Network.requestWillBeSent: a new request under a new
\* id, or the redirect of the request last sent under its id.
DeliverRequestWillBeSent ==
    /\ netOn /\ ~hung /\ ~Busy
    /\ \E p \in scn.requests :
          /\ p.redirect = NoUrl => (nSeq < scn.maxSeq /\ wire[p.requestId] = "none")
          /\ p.redirect # NoUrl => wire[p.requestId] = "sent"
          \* the browser does not fetch the manifest on its own (lines 526-530)
          /\ p.type = "Manifest" => manifestIsSpecified
          \* a redirected request keeps its id: redirectResponse answers the
          \* request last sent under it
          /\ p.redirect # NoUrl => requests[p.requestId].url = p.redirect
          /\ p.redirect # NoUrl => ~ClosesCycle(redirects, p.url, p.redirect)
          /\ tasks' = tasks \cup {NewTask("request", p)}
          /\ wire' = [wire EXCEPT ![p.requestId] = "sent"]
    /\ UNCHANGED <<fieldVars, nSeq, emitted, errorLog, hung, lifeVars, inputVars>>

\* The synchronous part of onRequestWillBeSent, up to its await.
RequestWillBeSent ==
    /\ \E t \in tasks : OnRequestWillBeSent(t)
    /\ UNCHANGED <<errorWithPage, dom, pending, manifestIsSpecified, faviconLoaded,
                   targetNetworkData, lifeVars, fixedVars>>

\* The await of line 238 returns and the handler ends.
RequestEmitted ==
    /\ ~hung /\ ~Busy
    /\ \E t \in tasks :
          /\ t.kind = "request" /\ t.pc = "emit"
          /\ tasks' = tasks \ {t}
    /\ UNCHANGED <<fieldVars, nSeq, emitted, errorLog, hung, lifeVars, fixedVars>>

(***************************************************************************)
(* The page's DOM, as the traversal and the element queries see it: node 1 *)
(* is the root, parent[n] < n is the parent of node n, children are in     *)
(* index order.  kind is what the connector reads of a node: "ignored" is  *)
(* nodeType 10, "manifest" is link rel=manifest, "icon" is link rel=icon,  *)
(* "element" is any other element.                                         *)
(***************************************************************************)

NodeKinds == {"element", "manifest", "icon", "ignored"}

Nodes(tree) == 1..Len(tree.parent)

\* A mutant of the child list below: the children last to first.
Children_Reversed(tree, n) ==
    LET kids == {c \in Nodes(tree) : tree.parent[c] = n}
        RECURSIVE InOrder(_)
        InOrder(s) == IF s = {} THEN <<>>
                      ELSE LET c == CHOOSE x \in s : \A y \in s : x >= y
                           IN  <<c>> \o InOrder(s \ {c})
    IN  InOrder(kids)

\* wrappedElement.children, in document order (indexes grow with it).
Children(tree, n) ==
    LET kids == {c \in Nodes(tree) : tree.parent[c] = n}
        RECURSIVE InOrder(_)
        InOrder(s) == IF s = {} THEN <<>>
                      ELSE LET c == CHOOSE x \in s : \A y \in s : x <= y
                           IN  <<c>> \o InOrder(s \ {c})
    IN  InOrder(kids)

\* hasAttributeWithValue(element, 'link', 'rel', 'icon'); element 0 is null.
IsIcon(element) == element # 0 /\ scn.tree.kind[element] = "icon"

(***************************************************************************)
(* getElementFromRequest (lines 147-171).  It asks the DOM (a protocol     *)
(* round trip) only for a known request started by the parser or "other";  *)
(* otherwise it returns null without suspending the event loop.            *)
(***************************************************************************)

\* getElementFromParser (lines 111-144) on a document given as the list of
\* its elements' src or href values, in document order.  A string is the
\* sequence of its characters; an element is its index in the list, 0 is
\* null.

EndsWith(str, suffix) ==
    /\ Len(suffix) <= Len(str)
    /\ SubSeq(str, Len(str) - Len(suffix) + 1, Len(str)) = suffix

\* this._dom.querySelectorAll('[src$="basename"],[href$="basename"]'), in
\* document order; an attribute selector with an empty value matches
\* nothing.
querySelectorAll(doc, basename) ==
    SelectSeq([i \in 1..Len(doc) |-> i],
              LAMBDA i : basename # <<>> /\ EndsWith(doc[i], basename))

\* Line 116: a null or empty basename is replaced, any other is extended.
NextBasename(parts, basename) ==
    IF basename = <<>> THEN parts[Len(parts)]
    ELSE parts[Len(parts)] \o <<"/">> \o basename

\* The loop of lines 115-136 and the return of line 143; queries is the list
\* of the basenames looked up so far.
RECURSIVE ParserLoop(_, _, _, _, _)
ParserLoop(doc, parts, basename, elements, queries) ==
    IF parts = <<>>
    THEN [element |-> IF elements = <<>> THEN 0 ELSE elements[1],
          queries |-> queries]
    ELSE LET next == NextBasename(parts, basename)
             newElements == querySelectorAll(doc, next)
             asked == Append(queries, next)
         IN  IF newElements = <<>>
             THEN [element |-> IF elements # <<>> THEN elements[1] ELSE 0,
                   queries |-> asked]
             ELSE IF Len(newElements) = 1
             THEN [element |-> newElements[1], queries |-> asked]
             ELSE ParserLoop(doc, SubSeq(parts, 1, Len(parts) - 1), next,
                             newElements, asked)

\* getElementFromParser with newElements for elements at line 122: the
\* first element of the previous match set is forgotten.
getElementFromParser_ForgetPrevious(doc, parts) ==
    LET r == ParserLoop(doc, parts, <<>>, <<>>, <<>>)
    IN  IF querySelectorAll(doc, r.queries[Len(r.queries)]) = <<>>
        THEN [r EXCEPT !.element = 0] ELSE r

getElementFromParser(doc, parts) == ParserLoop(doc, parts, <<>>, <<>>, <<>>)

\* No call yet.
CorrUnset == [element |-> 0 - 1, queries |-> <<>>]

CorrIdle == [doc |-> <<>>, parts |-> <<>>, out |-> CorrUnset]

\* The scheme of a URL: the origin DataScheme stands for a data: URL, any
\* other origin is an http or https one.
DataScheme == 9

DataUrl == Url(DataScheme, 0)

\* requestUrl.protocol.indexOf('http') === 0 (line 166).
IsHttp(u) == u[1] # DataScheme

\* getElementFromRequest without the tests of line 166: every tracked
\* request is looked up in the document.
NeedsQuery_AnyInitiator(t) ==
    requests[t.requestId] # NoRequest

NeedsQuery(t) ==
    /\ requests[t.requestId] # NoRequest
    /\ requests[t.requestId].initiator \in {"parser", "other"}
    /\ LET requestUrl == requests[t.requestId].url
           hops == calculate(requestUrl)
       IN  IsHttp(IF Len(hops) > 0 THEN hops[1] ELSE requestUrl)

\* What getElementFromParser may return on the loaded document.
QueryResults == scn.elements

\* Line 484 / 309.
DeleteRequest(id) == [requests EXCEPT ![id] = NoRequest]

(***************************************************************************)
(* onResponseReceived (lines 418-485) and createResponse (lines 389-415).  *)
(***************************************************************************)

EndNames == {"fetch::end", "targetfetch::end", "manifestfetch::end"}

\* Line 421: hops[0] || resourceUrl.
OriginalUrl(hops, resourceUrl) == IF Len(hops) > 0 THEN hops[1] ELSE resourceUrl

\* Lines 424-428.
EndName(type, originalUrl) ==
    IF type = "Manifest" THEN "manifestfetch::end"
    ELSE IF href = originalUrl THEN "targetfetch::end"
    ELSE "fetch::end"

\* Lines 447-484, from the return of createResponse: t0 is the invocation as
\* tasks holds it, t the same with its locals up to date.
ResponseFinish(t0, t) ==
    /\ targetNetworkData' =
          IF t.eventName = "targetfetch::end"
          THEN Append(targetNetworkData,
                      [seq |-> t.seq, requrl |-> t.originalUrl, url |-> t.url])
          ELSE targetNetworkData
    /\ faviconLoaded' = (faviconLoaded \/ IsIcon(t.element))
    /\ IF rootFaviconRequestOrResponse(t)
       THEN /\ requests' = DeleteRequest(t.requestId)
            /\ tasks' = tasks \ {t0}
            /\ emitted' = emitted
       ELSE /\ emitted' = Append(emitted,
                    Event(t.eventName, t.url, ByTask(t), t.hops, t.originalUrl,
                          t.element, 0))
            /\ tasks' = (tasks \ {t0}) \cup {[t EXCEPT !.pc = "emit"]}
            /\ requests' = requests

\* createResponse up to its await: the hops of line 391, then the body, which
\* is a protocol round trip for status 200 only (line 331).
ResponseCreate(t0, t) ==
    IF t.status = 200
    THEN /\ tasks' = (tasks \ {t0})
                        \cup {[t EXCEPT !.pc = "body", !.hops = calculate(t.url)]}
         /\ UNCHANGED <<requests, targetNetworkData, faviconLoaded, emitted>>
    ELSE ResponseFinish(t0, [t EXCEPT !.hops = calculate(t.url)])

\* onResponseReceived with hops[hops.length - 1] for hops[0] at line 421.
OnResponseReceived_NewestHop(t) ==
    LET hops == calculate(t.url)
        originalUrl == IF Len(hops) > 0 THEN hops[Len(hops)] ELSE t.url
        eventName == EndName(t.type, originalUrl)
        t1 == [t EXCEPT !.originalUrl = originalUrl, !.eventName = eventName]
    IN  /\ t.kind = "response" /\ t.pc = "start" /\ ~hung
        /\ IF eventName # "targetfetch::end" /\ dom = "none"
           THEN /\ pending' = Append(pending, [t EXCEPT !.queued = TRUE])
                /\ tasks' = tasks \ {t}
                /\ UNCHANGED <<requests, targetNetworkData, faviconLoaded, emitted>>
           ELSE IF eventName # "targetfetch::end" /\ NeedsQuery(t)
           THEN /\ tasks' = (tasks \ {t}) \cup {[t1 EXCEPT !.pc = "elem"]}
                /\ UNCHANGED <<pending, requests, targetNetworkData,
                               faviconLoaded, emitted>>
           ELSE /\ pending' = pending
                /\ ResponseCreate(t, t1)

\* onResponseReceived with the queue test of line 431 outside the test of
\* line 429: the target's response is queued like any other.
OnResponseReceived_QueueTarget(t) ==
    LET hops == calculate(t.url)
        originalUrl == OriginalUrl(hops, t.url)
        eventName == EndName(t.type, originalUrl)
        t1 == [t EXCEPT !.originalUrl = originalUrl, !.eventName = eventName]
    IN  /\ t.kind = "response" /\ t.pc = "start" /\ ~hung
        /\ IF dom = "none"
           THEN /\ pending' = Append(pending, [t EXCEPT !.queued = TRUE])
                /\ tasks' = tasks \ {t}
                /\ UNCHANGED <<requests, targetNetworkData, faviconLoaded, emitted>>
           ELSE IF eventName # "targetfetch::end" /\ NeedsQuery(t)
           THEN /\ tasks' = (tasks \ {t}) \cup {[t1 EXCEPT !.pc = "elem"]}
                /\ UNCHANGED <<pending, requests, targetNetworkData,
                               faviconLoaded, emitted>>
           ELSE /\ pending' = pending
                /\ ResponseCreate(t, t1)

\* The synchronous part of onResponseReceived: lines 419-445.
OnResponseReceived(t) ==
    LET hops == calculate(t.url)
        originalUrl == OriginalUrl(hops, t.url)
        eventName == EndName(t.type, originalUrl)
        t1 == [t EXCEPT !.originalUrl = originalUrl, !.eventName = eventName]
    IN  /\ t.kind = "response" /\ t.pc = "start" /\ ~hung
        /\ IF eventName # "targetfetch::end" /\ dom = "none"
           THEN /\ pending' = Append(pending, [t EXCEPT !.queued = TRUE])
                /\ tasks' = tasks \ {t}
                /\ UNCHANGED <<requests, targetNetworkData, faviconLoaded, emitted>>
           ELSE IF eventName # "targetfetch::end" /\ NeedsQuery(t)
           THEN /\ tasks' = (tasks \ {t}) \cup {[t1 EXCEPT !.pc = "elem"]}
                /\ UNCHANGED <<pending, requests, targetNetworkData,
                               faviconLoaded, emitted>>
           ELSE /\ pending' = pending
                /\ ResponseCreate(t, t1)

\* Variables the response and failure handlers leave alone.
netFrame == <<finalHref, redirects, manifestIsSpecified, nSeq, errorLog, hung,
              lifeVars, fixedVars>>

\* The browser delivers Network.responseReceived: the response to the request
\* last sent under the id.
DeliverResponseReceived ==
    /\ netOn /\ ~hung /\ ~Busy
    /\ nSeq < scn.maxSeq
    /\ \E p \in scn.responses :
          /\ \/ /\ wire[p.requestId] = "sent"
                /\ requests[p.requestId].url = p.url
             \* a response whose request-sent event was never delivered
             \/ /\ wire[p.requestId] = "none"
                /\ ~\E q \in scn.requests : q.requestId = p.requestId
          /\ tasks' = tasks \cup {NewTask("response", p)}
          /\ wire' = [wire EXCEPT ![p.requestId] = "responded"]
    /\ nSeq' = nSeq + 1
    /\ UNCHANGED <<fieldVars, emitted, errorLog, hung, lifeVars, inputVars>>

ResponseReceived ==
    /\ \E t \in tasks : OnResponseReceived(t)
    /\ UNCHANGED <<errorWithPage, dom>>
    /\ UNCHANGED netFrame

\* The await of line 439 returns: the element found on the loaded document;
\* on a document that is not loaded the query finds nothing or throws, and
\* the catch of line 440 leaves element null.
ResponseElement ==
    /\ ~hung /\ ~Busy
    /\ \E t \in tasks :
          /\ t.kind = "response" /\ t.pc = "elem"
          /\ \E e \in (IF dom = "loaded" THEN QueryResults ELSE {0}) :
                ResponseCreate(t, [t EXCEPT !.element = e])
    /\ UNCHANGED <<errorWithPage, dom, pending>>
    /\ UNCHANGED netFrame

\* The await of line 393 returns with the body.
ResponseBody ==
    /\ ~hung /\ ~Busy
    /\ \E t \in tasks :
          /\ t.kind = "response" /\ t.pc = "body"
          /\ ResponseFinish(t, t)
    /\ UNCHANGED <<errorWithPage, dom, pending>>
    /\ UNCHANGED netFrame

\* A mutant of the step below: the target's record is kept.
ResponseEmitted_KeepTarget ==
    /\ ~hung /\ ~Busy
    /\ \E t \in tasks :
          /\ t.kind = "response" /\ t.pc = "emit"
          /\ requests' = IF t.eventName = "targetfetch::end" THEN requests
                         ELSE DeleteRequest(t.requestId)
          /\ tasks' = tasks \ {t}
    /\ UNCHANGED <<errorWithPage, dom, pending, targetNetworkData, faviconLoaded,
                   emitted>>
    /\ UNCHANGED netFrame

\* The await of line 477 returns; line 484.
ResponseEmitted ==
    /\ ~hung /\ ~Busy
    /\ \E t \in tasks :
          /\ t.kind = "response" /\ t.pc = "emit"
          /\ requests' = DeleteRequest(t.requestId)
          /\ tasks' = tasks \ {t}
    /\ UNCHANGED <<errorWithPage, dom, pending, targetNetworkData, faviconLoaded,
                   emitted>>
    /\ UNCHANGED netFrame

(***************************************************************************)
(* onLoadingFailed (lines 243-319).                                        *)
(***************************************************************************)

\* Lines 289-318, from the return of getElementFromRequest.
FailedFinish(t0, t) ==
    IF requests[t.requestId] = NoRequest
    THEN /\ tasks' = tasks \ {t0}
         /\ UNCHANGED <<requests, emitted>>
    ELSE LET resource == requests[t.requestId].url
             eventName == IF href = resource THEN "targetfetch::error"
                          ELSE "fetch::error"
         IN  /\ requests' = DeleteRequest(t.requestId)
             \* params of a loading-failed event has neither request nor
             \* response: rootFaviconRequestOrResponse is false (line 316)
             /\ IF rootFaviconRequestOrResponse(t)
                THEN /\ tasks' = tasks \ {t0}
                     /\ emitted' = emitted
                ELSE /\ emitted' = Append(emitted,
                            Event(eventName, resource, ByTask(t),
                                  calculate(resource), NoUrl, t.element, 0))
                     /\ tasks' = (tasks \ {t0}) \cup {[t EXCEPT !.pc = "emit"]}

\* onLoadingFailed without the test of lines 253-257: an unknown requestId
\* is handled like a known one.
OnLoadingFailed_NoLookup(t) ==
    /\ t.kind = "failed" /\ t.pc = "start" /\ ~hung
    /\ IF requests[t.requestId].url \in {href, finalHref}
       THEN /\ errorWithPage' = TRUE
            /\ tasks' = tasks \ {t}
            /\ UNCHANGED <<requests, pending, emitted>>
       ELSE IF t.type = "Manifest"
       THEN /\ emitted' = Append(emitted,
                    Event("manifestfetch::error", requests[t.requestId].url,
                          ByTask(t), <<>>, NoUrl, 0, 0))
            /\ tasks' = (tasks \ {t}) \cup {[t EXCEPT !.pc = "emitM"]}
            /\ UNCHANGED <<requests, errorWithPage, pending>>
       ELSE IF dom = "none"
       THEN /\ pending' = Append(pending, [t EXCEPT !.queued = TRUE])
            /\ tasks' = tasks \ {t}
            /\ UNCHANGED <<requests, errorWithPage, emitted>>
       ELSE IF NeedsQuery(t)
       THEN /\ tasks' = (tasks \ {t}) \cup {[t EXCEPT !.pc = "elem"]}
            /\ UNCHANGED <<requests, errorWithPage, pending, emitted>>
       ELSE /\ FailedFinish(t, t)
            /\ UNCHANGED <<errorWithPage, pending>>

\* onLoadingFailed without the test of lines 262-266: a failure of the
\* target is handled like that of any resource.
OnLoadingFailed_NoRootTest(t) ==
    /\ t.kind = "failed" /\ t.pc = "start" /\ ~hung
    /\ IF requests[t.requestId] = NoRequest
       THEN /\ tasks' = tasks \ {t}
            /\ UNCHANGED <<requests, errorWithPage, pending, emitted>>
       ELSE IF t.type = "Manifest"
       THEN /\ emitted' = Append(emitted,
                    Event("manifestfetch::error", requests[t.requestId].url,
                          ByTask(t), <<>>, NoUrl, 0, 0))
            /\ tasks' = (tasks \ {t}) \cup {[t EXCEPT !.pc = "emitM"]}
            /\ UNCHANGED <<requests, errorWithPage, pending>>
       ELSE IF dom = "none"
       THEN /\ pending' = Append(pending, [t EXCEPT !.queued = TRUE])
            /\ tasks' = tasks \ {t}
            /\ UNCHANGED <<requests, errorWithPage, emitted>>
       ELSE IF NeedsQuery(t)
       THEN /\ tasks' = (tasks \ {t}) \cup {[t EXCEPT !.pc = "elem"]}
            /\ UNCHANGED <<requests, errorWithPage, pending, emitted>>
       ELSE /\ FailedFinish(t, t)
            /\ UNCHANGED <<errorWithPage, pending>>

\* The synchronous part of onLoadingFailed: lines 244-288.
OnLoadingFailed(t) ==
    /\ t.kind = "failed" /\ t.pc = "start" /\ ~hung
    /\ IF requests[t.requestId] = NoRequest
       THEN /\ tasks' = tasks \ {t}
            /\ UNCHANGED <<requests, errorWithPage, pending, emitted>>
       ELSE IF requests[t.requestId].url \in {href, finalHref}
       THEN /\ errorWithPage' = TRUE
            /\ tasks' = tasks \ {t}
            /\ UNCHANGED <<requests, pending, emitted>>
       ELSE IF t.type = "Manifest"
       THEN /\ emitted' = Append(emitted,
                    Event("manifestfetch::error", requests[t.requestId].url,
                          ByTask(t), <<>>, NoUrl, 0, 0))
            /\ tasks' = (tasks \ {t}) \cup {[t EXCEPT !.pc = "emitM"]}
            /\ UNCHANGED <<requests, errorWithPage, pending>>
       ELSE IF dom = "none"
       THEN /\ pending' = Append(pending, [t EXCEPT !.queued = TRUE])
            /\ tasks' = tasks \ {t}
            /\ UNCHANGED <<requests, errorWithPage, emitted>>
       ELSE IF NeedsQuery(t)
       THEN /\ tasks' = (tasks \ {t}) \cup {[t EXCEPT !.pc = "elem"]}
            /\ UNCHANGED <<requests, errorWithPage, pending, emitted>>
       ELSE /\ FailedFinish(t, t)
            /\ UNCHANGED <<errorWithPage, pending>>

\* Variables the failure handler leaves alone.
failedFrame == <<dom, targetNetworkData, faviconLoaded>>

\* The browser delivers Network.loadingFailed, for a request that was sent
\* and has not failed yet; it may come after the response (lines 246-251).
DeliverLoadingFailed ==
    /\ netOn /\ ~hung /\ ~Busy
    /\ nSeq < scn.maxSeq
    /\ \E p \in scn.failures :
          /\ wire[p.requestId] \in {"sent", "responded"}
          /\ tasks' = tasks \cup {NewTask("failed", p)}
          /\ wire' = [wire EXCEPT ![p.requestId] = "failed"]
    /\ nSeq' = nSeq + 1
    /\ UNCHANGED <<fieldVars, emitted, errorLog, hung, lifeVars, inputVars>>

LoadingFailed ==
    /\ \E t \in tasks : OnLoadingFailed(t)
    /\ UNCHANGED failedFrame
    /\ UNCHANGED netFrame

\* The await of line 288 returns with the element found on the loaded
\* document.
FailedElement ==
    /\ ~hung /\ ~Busy
    /\ dom = "loaded"
    /\ \E t \in tasks :
          /\ t.kind = "failed" /\ t.pc = "elem"
          /\ \E e \in QueryResults : FailedFinish(t, [t EXCEPT !.element = e])
    /\ UNCHANGED <<errorWithPage, pending>>
    /\ UNCHANGED failedFrame
    /\ UNCHANGED netFrame

\* The same on a document that is not loaded: the query finds nothing, or it
\* throws and the handler's promise is rejected (nothing catches it here).
FailedElementUnloaded ==
    /\ ~hung /\ ~Busy
    /\ dom # "loaded"
    /\ \E t \in tasks :
          /\ t.kind = "failed" /\ t.pc = "elem"
          /\ \/ FailedFinish(t, t)
             \/ /\ tasks' = (tasks \ {t}) \cup {[t EXCEPT !.pc = "threw"]}
                /\ UNCHANGED <<requests, emitted>>
    /\ UNCHANGED <<errorWithPage, pending>>
    /\ UNCHANGED failedFrame
    /\ UNCHANGED netFrame

\* The await of line 275 or 317 returns and the handler ends.
FailedEmitted ==
    /\ ~hung /\ ~Busy
    /\ \E t \in tasks :
          /\ t.kind = "failed" /\ t.pc \in {"emit", "emitM"}
          /\ tasks' = tasks \ {t}
    /\ UNCHANGED <<requests, errorWithPage, pending, emitted>>
    /\ UNCHANGED failedFrame
    /\ UNCHANGED netFrame

(***************************************************************************)
(* traverseAndNotify (lines 538-582).  The recursion is a stack of frames, *)
(* one per call that has not returned: the node, the number i of children  *)
(* the loop has reached, and the await the call is suspended at.           *)
(***************************************************************************)

ElementName(kind) ==
    IF kind \in {"manifest", "icon"} THEN "element::link" ELSE "element::div"

\* A traversal event; node is the node the event is about.
TraverseEvent(name, node) == Event(name, finalHref, NoBy, <<>>, NoUrl, 0, node)

Top(stack) == stack[Len(stack)]

SetTop(stack, f) == [stack EXCEPT ![Len(stack)] = f]

\* The loop of lines 571-581 with traverse::up emitted after every child and
\* not once after the loop.
NextChild_UpPerChild(stack) ==
    LET f == Top(stack)
        kids == Children(scn.tree, f.node)
    IN  IF f.i < Len(kids)
        THEN [stack |-> SetTop(stack, [f EXCEPT !.i = f.i + 1, !.pc = "down"]),
              ev |-> (IF f.i > 0 THEN <<TraverseEvent("traverse::up", f.node)>>
                      ELSE <<>>)
                     \o <<TraverseEvent("traverse::down", kids[f.i + 1])>>]
        ELSE [stack |-> SetTop(stack, [f EXCEPT !.pc = "up"]),
              ev |-> <<TraverseEvent("traverse::up", f.node)>>]

\* Lines 571-581 for the call on top of the stack, after child i is done
\* (i = 0: before the first): traverse::down for the next child, or
\* traverse::up after the last.
NextChild(stack) ==
    LET f == Top(stack)
        kids == Children(scn.tree, f.node)
    IN  IF f.i < Len(kids)
        THEN [stack |-> SetTop(stack, [f EXCEPT !.i = f.i + 1, !.pc = "down"]),
              ev |-> <<TraverseEvent("traverse::down", kids[f.i + 1])>>]
        ELSE [stack |-> SetTop(stack, [f EXCEPT !.pc = "up"]),
              ev |-> <<TraverseEvent("traverse::up", f.node)>>]

\* Lines 547-563: traverseAndNotify is called on node n by the call on top
\* of the stack.  An ignored node returns at once and the caller goes on.
EnterNode(stack, n) ==
    IF scn.tree.kind[n] = "ignored"
    THEN IF stack = <<>> THEN [stack |-> <<>>, ev |-> <<>>] ELSE NextChild(stack)
    ELSE [stack |-> Append(stack, [node |-> n, i |-> 0, pc |-> "elem"]),
          ev |-> <<TraverseEvent(ElementName(scn.tree.kind[n]), n)>>]

\* The load handler k takes the outcome r of a traversal step; when the
\* outermost call has returned it emits traverse::end (line 758).
Traversed(k, r) ==
    IF r.stack = <<>>
    THEN /\ emitted' = emitted \o r.ev
                        \o <<LifeEvent("traverse::end", loads[k].resource)>>
         /\ loads' = [loads EXCEPT ![k].pc = "tend", ![k].stack = <<>>]
    ELSE /\ emitted' = emitted \o r.ev
         /\ loads' = [loads EXCEPT ![k].pc = "traverse", ![k].stack = r.stack]

\* Load handler k is inside the traversal, suspended at await pc.
TraverseAt(k, pc) ==
    /\ ~hung /\ ~Busy
    /\ loads[k].pc = "traverse"
    /\ Top(loads[k].stack).pc = pc

\* Variables the traversal leaves alone.
traverseFrame == <<finalHref, requests, redirects, errorWithPage, dom, pending,
                   faviconLoaded, targetNetworkData, tasks, nSeq, collectPc,
                   netOn, callbacks, errorLog, hung, fixedVars>>

\* A mutant of the step below: getManifest without the assignment of
\* line 523.
TraverseManifestLink_NoFlag ==
    /\ \E k \in 1..Len(loads) :
          /\ TraverseAt(k, "elem")
          /\ scn.tree.kind[Top(loads[k].stack).node] = "manifest"
          /\ loads' = [loads EXCEPT ![k].stack =
                          SetTop(@, [Top(@) EXCEPT !.pc = "manifest"])]
    /\ UNCHANGED <<manifestIsSpecified, emitted>>
    /\ UNCHANGED traverseFrame

\* The await of line 563 returns for a link rel=manifest: getManifest is
\* called (lines 565-566, 523, 531).
TraverseManifestLink ==
    /\ \E k \in 1..Len(loads) :
          /\ TraverseAt(k, "elem")
          /\ scn.tree.kind[Top(loads[k].stack).node] = "manifest"
          /\ loads' = [loads EXCEPT ![k].stack =
                          SetTop(@, [Top(@) EXCEPT !.pc = "manifest"])]
    /\ manifestIsSpecified' = TRUE
    /\ UNCHANGED emitted
    /\ UNCHANGED traverseFrame

\* The await of line 563 returns for any other element: the loop over its
\* children starts.
TraverseElement ==
    /\ \E k \in 1..Len(loads) :
          /\ TraverseAt(k, "elem")
          /\ scn.tree.kind[Top(loads[k].stack).node] # "manifest"
          /\ Traversed(k, NextChild(loads[k].stack))
    /\ UNCHANGED manifestIsSpecified
    /\ UNCHANGED traverseFrame

\* Page.getAppManifest returns (line 531).
TraverseManifest ==
    /\ \E k \in 1..Len(loads) :
          /\ TraverseAt(k, "manifest")
          /\ Traversed(k, NextChild(loads[k].stack))
    /\ UNCHANGED manifestIsSpecified
    /\ UNCHANGED traverseFrame

\* Page.getAppManifest throws: getManifestManually fetches the manifest
\* itself (lines 533, 496).
TraverseManifestThrows ==
    /\ \E k \in 1..Len(loads) :
          /\ TraverseAt(k, "manifest")
          /\ loads' = [loads EXCEPT ![k].stack =
                          SetTop(@, [Top(@) EXCEPT !.pc = "manual"])]
    /\ UNCHANGED <<manifestIsSpecified, emitted>>
    /\ UNCHANGED traverseFrame

\* fetchContent returns or throws (lines 496-518): manifestfetch::end or
\* manifestfetch::error.
TraverseManual ==
    /\ \E k \in 1..Len(loads) :
          /\ TraverseAt(k, "manual")
          /\ \E name \in {"manifestfetch::end", "manifestfetch::error"} :
                emitted' = Append(emitted,
                    Event(name, Url(finalHref[1], ManifestPath), NoBy, <<>>,
                          NoUrl, Top(loads[k].stack).node, 0))
          /\ loads' = [loads EXCEPT ![k].stack =
                          SetTop(@, [Top(@) EXCEPT !.pc = "manualEmit"])]
    /\ UNCHANGED manifestIsSpecified
    /\ UNCHANGED traverseFrame

\* The await of line 505 or 518 returns.
TraverseManualEmitted ==
    /\ \E k \in 1..Len(loads) :
          /\ TraverseAt(k, "manualEmit")
          /\ Traversed(k, NextChild(loads[k].stack))
    /\ UNCHANGED manifestIsSpecified
    /\ UNCHANGED traverseFrame

\* The await of line 575 returns: the recursive call of line 576.
TraverseDown ==
    /\ \E k \in 1..Len(loads) :
          /\ TraverseAt(k, "down")
          /\ LET st == loads[k].stack
                 f == Top(st)
             IN  Traversed(k, EnterNode(SetTop(st, [f EXCEPT !.pc = "child"]),
                                        Children(scn.tree, f.node)[f.i]))
    /\ UNCHANGED manifestIsSpecified
    /\ UNCHANGED traverseFrame

\* The await of line 581 returns: the call returns to its caller, which
\* loops on.
TraverseUp ==
    /\ \E k \in 1..Len(loads) :
          /\ TraverseAt(k, "up")
          /\ LET st == SubSeq(loads[k].stack, 1, Len(loads[k].stack) - 1)
             IN  Traversed(k, IF st = <<>> THEN [stack |-> <<>>, ev |-> <<>>]
                              ELSE NextChild(st))
    /\ UNCHANGED manifestIsSpecified
    /\ UNCHANGED traverseFrame

(***************************************************************************)
(* onLoadEventFired (lines 740-780), processPendingResponses (lines        *)
(* 732-737) and getFavicon (lines 700-729).  loads[k] is the k-th          *)
(* invocation of the load handler: the await it is suspended at (pc), the  *)
(* replayed invocation the drain waits for (cur), the document it created  *)
(* (doc), the event captured at line 744 (resource), its traversal (stack) *)
(* and the favicon link it found (icon).                                   *)
(***************************************************************************)

NewLoad == [pc |-> "delay", cur |-> 0, doc |-> 0, resource |-> NoUrl,
            stack |-> <<>>, icon |-> 0]

\* The number of documents created so far; _dom is the last one.
CurrentDoc ==
    IF loads = <<>> THEN 0
    ELSE CHOOSE d \in {loads[k].doc : k \in 1..Len(loads)} :
            \A k \in 1..Len(loads) : loads[k].doc <= d

\* The first link rel~=icon of the document (line 765), 0 when there is none.
FirstIcon ==
    LET icons == {n \in Nodes(scn.tree) : scn.tree.kind[n] = "icon"}
    IN  IF icons = {} THEN 0 ELSE CHOOSE n \in icons : \A m \in icons : n <= m

\* Line 701.
FaviconHref(element) ==
    IF element # 0 THEN Relative(IconPath) ELSE Relative(FaviconPath)

\* Lines 752-756, after the drain.
AfterDrain(k) ==
    IF errorWithPage
    THEN /\ callbacks' = Append(callbacks, "error")
         /\ loads' = [loads EXCEPT ![k].pc = "done"]
         /\ emitted' = emitted
    ELSE /\ emitted' = Append(emitted,
                              LifeEvent("traverse::start", loads[k].resource))
         /\ loads' = [loads EXCEPT ![k].pc = "tstart"]
         /\ callbacks' = callbacks

\* A mutant of the drain below: the replayed thunk queues itself again.
DrainStep_Requeue(k) ==
    IF pending # <<>>
    THEN /\ pending' = Append(Tail(pending), Head(pending))
         /\ loads' = [loads EXCEPT ![k].pc = "drainWait", ![k].cur = 0]
         /\ UNCHANGED <<tasks, emitted, callbacks>>
    ELSE /\ AfterDrain(k)
         /\ UNCHANGED <<tasks, pending>>

\* A mutant of the drain below: the queue is left as it is.
DrainStep_SkipQueue(k) ==
    /\ AfterDrain(k)
    /\ UNCHANGED <<tasks, pending>>

\* The head of the loop of lines 733-735: the oldest thunk is shifted and
\* called, or the drain is over.
DrainStep(k) ==
    IF pending # <<>>
    THEN /\ tasks' = tasks \cup {Head(pending)}
         /\ pending' = Tail(pending)
         /\ loads' = [loads EXCEPT ![k].pc = "drainWait",
                                   ![k].cur = Head(pending).seq]
         /\ UNCHANGED <<emitted, callbacks>>
    ELSE /\ AfterDrain(k)
         /\ UNCHANGED <<tasks, pending>>

\* Variables no step of the load handler writes.
loadFrame == <<finalHref, requests, redirects, errorWithPage, faviconLoaded,
               targetNetworkData, nSeq, collectPc, netOn, errorLog, hung,
               fixedVars>>

\* The browser delivers Page.loadEventFired.
DeliverLoadEvent ==
    /\ netOn /\ ~hung /\ ~Busy
    /\ Len(loads) < scn.maxLoads
    /\ loads' = Append(loads, NewLoad)
    /\ UNCHANGED <<dom, pending, manifestIsSpecified, tasks, callbacks, emitted>>
    /\ UNCHANGED loadFrame

\* delay(waitFor) is over: lines 743-748, the document is created and its
\* load is awaited.
LoadDelayed ==
    /\ ~hung /\ ~Busy
    /\ \E k \in 1..Len(loads) :
          /\ loads[k].pc = "delay"
          /\ loads' = [loads EXCEPT ![k].pc = "domload",
                                    ![k].doc = CurrentDoc + 1,
                                    ![k].resource = finalHref]
    /\ dom' = "created"
    /\ UNCHANGED <<pending, manifestIsSpecified, tasks, callbacks, emitted>>
    /\ UNCHANGED loadFrame

\* The document is loaded (line 748) and the drain starts (line 750).
LoadDomLoaded ==
    /\ ~hung /\ ~Busy
    /\ \E k \in 1..Len(loads) :
          /\ loads[k].pc = "domload"
          /\ dom' = IF loads[k].doc = CurrentDoc THEN "loaded" ELSE dom
          /\ DrainStep(k)
    /\ UNCHANGED manifestIsSpecified
    /\ UNCHANGED loadFrame

\* The replayed handler the drain awaits is over (line 735): the loop goes
\* on, or the handler threw and the catch of line 776 reports it.
LoadDrained ==
    /\ ~hung /\ ~TaskBusy
    /\ \E k \in 1..Len(loads) :
          /\ loads[k].pc = "drainWait"
          /\ ~\E t \in tasks : /\ t.seq = loads[k].cur /\ t.kind # "request"
                               /\ t.pc # "threw"
          /\ IF \E t \in tasks : t.seq = loads[k].cur /\ t.pc = "threw"
             THEN /\ callbacks' = Append(callbacks, "error")
                  /\ loads' = [loads EXCEPT ![k].pc = "done"]
                  /\ tasks' = {t \in tasks :
                                  ~(t.seq = loads[k].cur /\ t.pc = "threw")}
                  /\ UNCHANGED <<pending, emitted>>
             ELSE DrainStep(k)
    /\ UNCHANGED <<dom, manifestIsSpecified>>
    /\ UNCHANGED loadFrame

\* The await of line 756 returns: the traversal starts at the root (line
\* 757); the root of a document that is not loaded is undefined, and the
\* TypeError of line 549 reaches the catch of line 776.
LoadTraverse ==
    /\ ~hung /\ ~Busy
    /\ \E k \in 1..Len(loads) :
          /\ loads[k].pc = "tstart"
          /\ IF dom = "loaded"
             THEN /\ Traversed(k, EnterNode(<<>>, 1))
                  /\ callbacks' = callbacks
             ELSE /\ callbacks' = Append(callbacks, "error")
                  /\ loads' = [loads EXCEPT ![k].pc = "done"]
                  /\ emitted' = emitted
    /\ UNCHANGED <<dom, pending, manifestIsSpecified, tasks>>
    /\ UNCHANGED loadFrame

\* Lines 764-771 from the favicon test: the probe starts with a query for
\* the favicon link, or the timer of line 771 is set.
FaviconOrTimer(k) ==
    loads' = [loads EXCEPT ![k].pc = IF faviconLoaded THEN "timer" ELSE "fquery"]

\* The await of line 758 returns: lines 760-762.
LoadTraversed ==
    /\ ~hung /\ ~Busy
    /\ \E k \in 1..Len(loads) :
          /\ loads[k].pc = "tend"
          /\ IF manifestIsSpecified
             THEN /\ FaviconOrTimer(k)
                  /\ emitted' = emitted
             ELSE /\ emitted' = Append(emitted,
                                       LifeEvent("manifestfetch::missing", href))
                  /\ loads' = [loads EXCEPT ![k].pc = "mmissing"]
    /\ UNCHANGED <<dom, pending, manifestIsSpecified, tasks, callbacks>>
    /\ UNCHANGED loadFrame

\* The await of line 761 returns.
LoadManifestMissing ==
    /\ ~hung /\ ~Busy
    /\ \E k \in 1..Len(loads) :
          /\ loads[k].pc = "mmissing"
          /\ FaviconOrTimer(k)
    /\ UNCHANGED <<dom, pending, manifestIsSpecified, tasks, callbacks, emitted>>
    /\ UNCHANGED loadFrame

\* The query of line 765 returns and getFavicon emits fetch::start for the
\* href it will fetch (lines 701-705).
LoadFaviconQueried ==
    /\ ~hung /\ ~Busy
    /\ \E k \in 1..Len(loads) :
          /\ loads[k].pc = "fquery"
          /\ LET icon == IF dom = "loaded" THEN FirstIcon ELSE 0
             IN  /\ emitted' = Append(emitted,
                        Event("fetch::start", FaviconHref(icon), NoBy, <<>>,
                              NoUrl, 0, 0))
                 /\ loads' = [loads EXCEPT ![k].pc = "fstart", ![k].icon = icon]
    /\ UNCHANGED <<dom, pending, manifestIsSpecified, tasks, callbacks>>
    /\ UNCHANGED loadFrame

\* The await of line 705 returns: fetchContent is called (line 707).
LoadFaviconStarted ==
    /\ ~hung /\ ~Busy
    /\ \E k \in 1..Len(loads) :
          /\ loads[k].pc = "fstart"
          /\ loads' = [loads EXCEPT ![k].pc = "ffetch"]
    /\ UNCHANGED <<dom, pending, manifestIsSpecified, tasks, callbacks, emitted>>
    /\ UNCHANGED loadFrame

\* fetchContent returns (lines 709-716) or throws (lines 718-727).
LoadFaviconFetched ==
    /\ ~hung /\ ~Busy
    /\ \E k \in 1..Len(loads) :
          /\ loads[k].pc = "ffetch"
          /\ LET favHref == FaviconHref(loads[k].icon)
             IN  \/ emitted' = Append(emitted,
                        Event("fetch::end", Url(finalHref[1], favHref[2]), NoBy,
                              <<>>, NoUrl, 0, 0))
                 \/ emitted' = Append(emitted,
                        Event("fetch::error", favHref, NoBy, calculate(favHref),
                              NoUrl, loads[k].icon, 0))
          /\ loads' = [loads EXCEPT ![k].pc = "fdone"]
    /\ UNCHANGED <<dom, pending, manifestIsSpecified, tasks, callbacks>>
    /\ UNCHANGED loadFrame

\* The await of line 716 or 727 returns: the timer of line 771 is set.
LoadFaviconDone ==
    /\ ~hung /\ ~Busy
    /\ \E k \in 1..Len(loads) :
          /\ loads[k].pc = "fdone"
          /\ loads' = [loads EXCEPT ![k].pc = "timer"]
    /\ UNCHANGED <<dom, pending, manifestIsSpecified, tasks, callbacks, emitted>>
    /\ UNCHANGED loadFrame

\* The timer fires: scan::end is emitted (line 772).
LoadTimer ==
    /\ ~hung /\ ~Busy
    /\ \E k \in 1..Len(loads) :
          /\ loads[k].pc = "timer"
          /\ emitted' = Append(emitted, LifeEvent("scan::end", loads[k].resource))
          /\ loads' = [loads EXCEPT ![k].pc = "scanend"]
    /\ UNCHANGED <<dom, pending, manifestIsSpecified, tasks, callbacks>>
    /\ UNCHANGED loadFrame

\* The await of line 772 returns: the completion callback (line 774).
LoadScanEnded ==
    /\ ~hung /\ ~Busy
    /\ \E k \in 1..Len(loads) :
          /\ loads[k].pc = "scanend"
          /\ callbacks' = Append(callbacks, "ok")
          /\ loads' = [loads EXCEPT ![k].pc = "done"]
    /\ UNCHANGED <<dom, pending, manifestIsSpecified, tasks, emitted>>
    /\ UNCHANGED loadFrame

(***************************************************************************)
(* The session: initiateComms, getClient, close and evaluate.              *)
(***************************************************************************)

\* getClient gives up once retries > MaxRetries (line 593).
MaxRetries == 3
\* delay((retries * RetryStep) + RetryBase) (line 597).
RetryBase == 500
RetryStep == 250

\* cdp.List returns at most this many tabs that are not extension tabs.
MaxTabs == 2
\* The id of the tab cdp.New opens.
NewTab == MaxTabs + 1

\* No call of initiateComms yet.
CommsIdle ==
    [isNew |-> FALSE, tab |-> 0, listed |-> <<>>, retries |-> 0,
     attempts |-> 0, delays |-> <<>>, viaGetClient |-> FALSE, error |-> ""]

CloseIdle == [pc |-> "idle", tab |-> 0, closeTabCalls |-> <<>>,
              tabFailures |-> {}, clientCloseCalls |-> 0, threw |-> FALSE]

EvalIdle == [pc |-> "idle", state |-> "pending", settles |-> <<>>,
             timer |-> "unset", answer |-> "none"]

\* The session fields as the field initializers leave them (lines 53, 69).
SessionIdle ==
    /\ tabs = <<>>
    /\ client = "none"
    /\ comms = CommsIdle
    /\ closing = CloseIdle
    /\ evalP = EvalIdle

\* The session after initiateComms attached to the one tab of a new browser
\* at the first attempt.
SessionAttached ==
    /\ tabs = <<1>>
    /\ client = "open"
    /\ comms = [CommsIdle EXCEPT !.isNew = TRUE, !.listed = <<1>>,
                                 !.attempts = 1, !.viaGetClient = TRUE]
    /\ closing = CloseIdle
    /\ evalP = EvalIdle

(***************************************************************************)
(* collect (lines 788-851), with initiateComms (608-653) and getClient     *)
(* (584-605).  Every await of a protocol call, of the launcher and of a    *)
(* delay is a step.                                                        *)
(***************************************************************************)

collectFrame == <<dom, pending, requests, redirects, errorWithPage,
                  manifestIsSpecified, faviconLoaded, targetNetworkData,
                  tasks, nSeq, loads, errorLog, hung, wire, closing, evalP,
                  ctIn, ctOut, corr, scn>>

\* The catch of lines 799-806: the callback gets the error, nothing is
\* emitted.
CatchComms(err) ==
    /\ callbacks' = Append(callbacks, err)
    /\ collectPc' = "done"
    /\ UNCHANGED emitted

\* collect is called: lines 790-795, up to the await of launcher.launch.
Collect ==
    /\ collectPc = "idle"
    /\ closing.pc = "idle"
    /\ finalHref' = Target
    /\ emitted' = Append(emitted, LifeEvent("scan::start", Target))
    /\ collectPc' = "launch"
    /\ UNCHANGED <<tabs, client, comms, netOn, callbacks>>
    /\ UNCHANGED collectFrame

\* launcher.launch returns (line 609): cdp.List for a new browser (618),
\* cdp.New for one that was already there (626).
Launched ==
    /\ collectPc = "launch"
    /\ \E isNew \in BOOLEAN :
          /\ comms' = [comms EXCEPT !.isNew = isNew]
          /\ collectPc' = IF isNew THEN "list" ELSE "new"
    /\ UNCHANGED <<finalHref, tabs, client, netOn, callbacks, emitted>>
    /\ UNCHANGED collectFrame

\* launcher.launch, cdp.List or cdp.New throws: initiateComms throws.
CommsThrows ==
    /\ collectPc \in {"launch", "list", "new"}
    /\ CatchComms(collectPc \o " error")
    /\ UNCHANGED <<finalHref, tabs, client, comms, netOn>>
    /\ UNCHANGED collectFrame

\* cdp.List returns (618-620): getClient is called with the first tab and
\* makes its first attempt (589).
Listed ==
    /\ collectPc = "list"
    /\ \E n \in 0..MaxTabs :
          comms' = [comms EXCEPT !.listed = [i \in 1..n |-> i],
                                 !.viaGetClient = TRUE,
                                 !.retries = 0,
                                 !.attempts = 1]
    /\ collectPc' = "attach"
    /\ UNCHANGED <<finalHref, tabs, client, netOn, callbacks, emitted>>
    /\ UNCHANGED collectFrame

\* cdp.New returns (626-632): no tab throws, a tab is tracked and attached to
\* by a direct call of cdp (634).
NewTabOpened ==
    /\ collectPc = "new"
    /\ \E tab \in {0, NewTab} :
          IF tab = 0
          THEN /\ CatchComms("new tab error")
               /\ UNCHANGED <<tabs, comms>>
          ELSE /\ tabs' = Append(tabs, tab)
               /\ comms' = [comms EXCEPT !.tab = tab, !.attempts = 1]
               /\ collectPc' = "attach"
               /\ UNCHANGED <<callbacks, emitted>>
    /\ UNCHANGED <<finalHref, client, netOn>>
    /\ UNCHANGED collectFrame

\* cdp returns a client (589, 634): initiateComms returns it and collect goes
\* on to line 808; with overrideInvalidCert it awaits Security.enable (829),
\* else it registers the load handler and awaits enableNetworkEvents (686).
Attached ==
    /\ collectPc = "attach"
    /\ tabs' = IF comms.viaGetClient THEN comms.listed ELSE tabs
    /\ client' = "open"
    /\ \E overrideInvalidCert \in BOOLEAN :
          collectPc' = IF overrideInvalidCert THEN "security" ELSE "enable"
    /\ UNCHANGED <<finalHref, comms, netOn, callbacks, emitted>>
    /\ UNCHANGED collectFrame

\* cdp throws inside getClient (592-601): give up once retries > MaxRetries,
\* else wait.
GetClientCatch ==
    IF comms.retries > MaxRetries
    THEN /\ CatchComms("attach error")
         /\ UNCHANGED comms
    ELSE /\ comms' = [comms EXCEPT
                !.delays = Append(@, (comms.retries * RetryStep) + RetryBase)]
         /\ collectPc' = "retrydelay"
         /\ UNCHANGED <<callbacks, emitted>>

\* cdp throws: in getClient the catch above, in the direct call of line 634
\* the error leaves initiateComms.
AttachFails ==
    /\ collectPc = "attach"
    /\ IF comms.viaGetClient
       THEN GetClientCatch
       ELSE CatchComms("attach error") /\ UNCHANGED comms
    /\ UNCHANGED <<finalHref, tabs, client, netOn>>
    /\ UNCHANGED collectFrame

\* The delay of line 597 is over: retries++ and loadCDP again (598-600).
RetryDelayed ==
    /\ collectPc = "retrydelay"
    /\ comms' = [comms EXCEPT !.retries = @ + 1, !.attempts = @ + 1]
    /\ collectPc' = "attach"
    /\ UNCHANGED <<finalHref, tabs, client, netOn, callbacks, emitted>>
    /\ UNCHANGED collectFrame

\* Security.enable, then Security.setOverrideCertificateErrors, return
\* (829-832); then the load handler is registered and configureAndEnableCDP
\* called (835-840).
SecurityReturned ==
    /\ collectPc \in {"security", "override"}
    /\ collectPc' = IF collectPc = "security" THEN "override" ELSE "enable"
    /\ UNCHANGED <<finalHref, tabs, client, comms, netOn, callbacks, emitted>>
    /\ UNCHANGED collectFrame

\* One of them throws: no try encloses lines 821-834, so the async function
\* rejects and the callback is never called.
SecurityThrows ==
    /\ collectPc \in {"security", "override"}
    /\ collectPc' = "rejected"
    /\ UNCHANGED <<finalHref, tabs, client, comms, netOn, callbacks, emitted>>
    /\ UNCHANGED collectFrame

\* A mutant of the catch below: the callback is called at once.
CatchEnable_NoScanEnd(err) ==
    /\ callbacks' = Append(callbacks, err)
    /\ collectPc' = "done"
    /\ UNCHANGED <<emitted, comms>>

\* The catch of lines 843-848: scan::end is emitted and awaited, the callback
\* comes after.
CatchEnable(err) ==
    /\ emitted' = Append(emitted, LifeEvent("scan::end", Target))
    /\ comms' = [comms EXCEPT !.error = err]
    /\ collectPc' = "scanend"
    /\ UNCHANGED callbacks

\* enableNetworkEvents returns (686), then the Promise.all of Network.enable
\* and Page.enable (688-691), then Page.navigate (842).
EnableReturned ==
    /\ collectPc \in {"enable", "domains", "navigate"}
    /\ collectPc' = CASE collectPc = "enable" -> "domains"
                      [] collectPc = "domains" -> "navigate"
                      [] OTHER -> "navigated"
    /\ netOn' = (netOn \/ collectPc = "domains")
    /\ UNCHANGED <<finalHref, tabs, client, comms, callbacks, emitted>>
    /\ UNCHANGED collectFrame

\* One of the three throws.
EnableThrows ==
    /\ collectPc \in {"enable", "domains", "navigate"}
    /\ CatchEnable(IF collectPc = "navigate" THEN "navigate error"
                   ELSE "enable error")
    /\ UNCHANGED <<finalHref, tabs, client, netOn>>
    /\ UNCHANGED collectFrame

\* The emitAsync of line 844 returns: callback(e) (846).
CollectScanEnded ==
    /\ collectPc = "scanend"
    /\ callbacks' = Append(callbacks, comms.error)
    /\ collectPc' = "done"
    /\ UNCHANGED <<finalHref, tabs, client, comms, netOn, emitted>>
    /\ UNCHANGED collectFrame

(***************************************************************************)
(* Initial states.                                                         *)
(***************************************************************************)

\* The fields as the constructor and the field initializers leave them.
Constructed ==
    /\ finalHref = NoUrl
    /\ requests = [r \in RequestIds |-> NoRequest]
    /\ redirects = {}
    /\ errorWithPage = FALSE
    /\ dom = "none"
    /\ pending = <<>>
    /\ manifestIsSpecified = FALSE
    /\ faviconLoaded = FALSE
    /\ targetNetworkData = <<>>
    /\ tasks = {}
    /\ nSeq = 0
    /\ loads = <<>>
    /\ collectPc = "idle"
    /\ netOn = FALSE
    /\ callbacks = <<>>
    /\ emitted = <<>>
    /\ errorLog = {}
    /\ hung = FALSE
    /\ wire = [r \in RequestIds |-> "none"]
    /\ SessionIdle

\* collect has emitted scan::start, attached, enabled the domains and
\* requested the navigation; no event has been delivered yet.
Navigated ==
    /\ finalHref = Target
    /\ requests = [r \in RequestIds |-> NoRequest]
    /\ redirects = {}
    /\ errorWithPage = FALSE
    /\ dom = "none"
    /\ pending = <<>>
    /\ manifestIsSpecified = FALSE
    /\ faviconLoaded = FALSE
    /\ targetNetworkData = <<>>
    /\ tasks = {}
    /\ nSeq = 0
    /\ loads = <<>>
    /\ collectPc = "navigated"
    /\ netOn = TRUE
    /\ callbacks = <<>>
    /\ emitted = <<[name |-> "scan::start", resource |-> Target, by |-> NoBy,
                    hops |-> <<>>, requrl |-> NoUrl, element |-> 0, node |-> 0,
                    map |-> {}]>>
    /\ errorLog = {}
    /\ hung = FALSE
    /\ wire = [r \in RequestIds |-> "none"]
    /\ SessionAttached

CtIdle ==
    /\ ctIn = [element |-> NoElement, resource |-> "https://example.test/",
               rawContent |-> Null, header |-> Null]
    /\ ctOut = CtUnset
    /\ corr = CorrIdle

(***************************************************************************)
(* SpecCT: one call of getContentTypeData on any input.                    *)
(***************************************************************************)

\* A scenario: the request-sent, response-received and loading-failed events
\* the browser may deliver, how many network events and load events it
\* delivers, the page's DOM and what the element queries may return.
Scenario(reqs, resps, fails, maxSeq, maxLoads, tree, elements) ==
    [requests |-> reqs, responses |-> resps, failures |-> fails,
     maxSeq |-> maxSeq, maxLoads |-> maxLoads, tree |-> tree,
     elements |-> elements]

\* A page of one element.
RootOnly == [parent |-> <<0>>, kind |-> <<"element">>]

NoScenario == Scenario({}, {}, {}, 0, 0, RootOnly, {0})

CtInit ==
    /\ ctIn \in CtInputs
    /\ ctOut = CtUnset
    /\ corr = CorrIdle
    /\ scn = NoScenario
    /\ Constructed

\* One call of getContentTypeData (createResponse, line 409).
Resolve ==
    /\ ctOut = CtUnset
    /\ ctOut' = getContentTypeData(ctIn.element, ctIn.resource,
                                   ctIn.rawContent, ctIn.header)
    /\ UNCHANGED <<ctIn, corr, scn, connVars>>

CtNext == Resolve

SpecCT == CtInit /\ [][CtNext]_vars

(***************************************************************************)
(* SpecRedir: request-sent events along a chain of redirects                *)
(* u0 -> u1 -> ... (u0 is the target), delivered in any order and any      *)
(* number of times, with self-redirects and plain requests between them.   *)
(***************************************************************************)

\* The number of URLs of the chain.
ChainUrlCount == 12

\* The number of request-sent events of the scenario that emit.
ChainMaxSeq == 2

ChainUrl(i) == IF i = 0 THEN Target ELSE Url(0, FaviconPath + i)

RequestParams(id, u, initiator, redirect) ==
    [requestId |-> id, url |-> u, type |-> "Document", initiator |-> initiator,
     redirect |-> redirect, status |-> 0]

ChainScenario ==
    Scenario(
        {RequestParams(id, ChainUrl(i + 1), "other", ChainUrl(i)) :
            id \in RequestIds, i \in 0..(ChainUrlCount - 2)}
        \cup {RequestParams(1, ChainUrl(i), "other", ChainUrl(i)) : i \in {0, 1}}
        \cup {RequestParams(1, ChainUrl(i), "other", NoUrl) : i \in {0, 1}}
        \cup {RequestParams(2, ChainUrl(i), "other", NoUrl) :
                i \in {0, ChainUrlCount - 3}}
        \cup {RequestParams(2, Url(0, FaviconPath), "other", NoUrl)},
        {}, {}, ChainMaxSeq, 0, RootOnly, {0})

RedirInit ==
    /\ CtIdle
    /\ scn = ChainScenario
    /\ Navigated

RedirNext ==
    \/ DeliverRequestWillBeSent
    \/ RequestWillBeSent
    \/ RequestEmitted

SpecRedir == RedirInit /\ [][RedirNext]_vars

(***************************************************************************)
(* SpecTraverse: the page-load handler on any page of at most MaxNodes     *)
(* nodes, with no network event in its way.                                *)
(***************************************************************************)

MaxNodes == 4

\* The pages: node 1 is an element, a node of the ignored type (a doctype)
\* has no children.
Trees ==
    UNION {
        {tr \in [parent : {p \in [1..n -> 0..n] :
                             /\ p[1] = 0
                             /\ \A c \in 2..n : p[c] \in 1..(c - 1)},
                 kind : [1..n -> NodeKinds]] :
            /\ tr.kind[1] = "element"
            /\ \A c \in 2..n : tr.kind[tr.parent[c]] # "ignored"}
        : n \in 1..MaxNodes}

TraverseInit ==
    /\ CtIdle
    /\ scn \in {Scenario({}, {}, {}, 0, 1, tr, {0}) : tr \in Trees}
    /\ Navigated

TraverseNext ==
    \/ DeliverLoadEvent
    \/ LoadDelayed
    \/ LoadDomLoaded
    \/ LoadTraverse
    \/ TraverseManifestLink
    \/ TraverseElement
    \/ TraverseManifest
    \/ TraverseManifestThrows
    \/ TraverseManual
    \/ TraverseManualEmitted
    \/ TraverseDown
    \/ TraverseUp
    \/ LoadTraversed
    \/ LoadManifestMissing
    \/ LoadFaviconQueried
    \/ LoadFaviconStarted
    \/ LoadFaviconFetched
    \/ LoadFaviconDone
    \/ LoadTimer
    \/ LoadScanEnded

SpecTraverse == TraverseInit /\ [][TraverseNext]_vars

(***************************************************************************)
(* SpecQueue: two resources of the page, requested, answered or failed at  *)
(* any time before, during and after the page-load handler.                *)
(***************************************************************************)

\* The number of network events delivered (redirects apart).
QueueMaxSeq == 3

ResponseParams(id, u, type, status) ==
    [requestId |-> id, url |-> u, type |-> type, initiator |-> "",
     redirect |-> NoUrl, status |-> status]

FailedParams(id, type) ==
    [requestId |-> id, url |-> NoUrl, type |-> type, initiator |-> "",
     redirect |-> NoUrl, status |-> 0]

\* Two resources that are neither the target nor the root favicon.
ResourceA == Url(0, 4)

ResourceB == Url(0, 5)

QueueScenario ==
    Scenario(
        {RequestParams(1, ResourceA, "parser", NoUrl),
         RequestParams(2, ResourceB, "script", NoUrl)},
        {ResponseParams(1, ResourceA, "Script", 200),
         ResponseParams(2, ResourceB, "Manifest", 404)},
        {FailedParams(1, "Script"), FailedParams(2, "Other")},
        QueueMaxSeq, 1, RootOnly, {0})

QueueInit ==
    /\ CtIdle
    /\ scn = QueueScenario
    /\ Navigated

QueueNext ==
    \/ DeliverRequestWillBeSent
    \/ RequestWillBeSent
    \/ RequestEmitted
    \/ DeliverResponseReceived
    \/ ResponseReceived
    \/ ResponseElement
    \/ ResponseBody
    \/ ResponseEmitted
    \/ DeliverLoadingFailed
    \/ LoadingFailed
    \/ FailedElement
    \/ FailedElementUnloaded
    \/ FailedEmitted
    \/ DeliverLoadEvent
    \/ LoadDelayed
    \/ LoadDomLoaded
    \/ LoadDrained
    \/ LoadTraverse
    \/ TraverseElement
    \/ TraverseUp
    \/ LoadTraversed
    \/ LoadManifestMissing
    \/ LoadFaviconQueried
    \/ LoadFaviconStarted
    \/ LoadFaviconFetched
    \/ LoadFaviconDone
    \/ LoadTimer
    \/ LoadScanEnded

SpecQueue == QueueInit /\ [][QueueNext]_vars

(***************************************************************************)
(* SpecHops: one request, for the target or for a resource of the page,    *)
(* redirected up to twice, and the response to it.                         *)
(***************************************************************************)

\* The number of network events delivered (redirects apart).
HopsMaxSeq == 2

\* The URLs the resource is redirected to.
ResourceC == Url(0, 6)

\* The URLs the target is redirected to.
TargetB == Url(0, 7)

TargetC == Url(0, 8)

\* A request for a, redirected to b and then to c, answered at any of them.
HopsScenario(a, b, c, initiator) ==
    Scenario(
        {RequestParams(1, a, initiator, NoUrl),
         RequestParams(1, b, initiator, a),
         RequestParams(1, c, initiator, b)},
        {ResponseParams(1, u, "Document", st) : u \in {a, b, c}, st \in {200, 404}},
        {}, HopsMaxSeq, 1, RootOnly, {0})

HopsInit ==
    /\ CtIdle
    /\ scn \in {HopsScenario(Target, TargetB, TargetC, "other"),
                HopsScenario(ResourceA, ResourceB, ResourceC, "parser")}
    /\ Navigated

HopsNext ==
    \/ DeliverRequestWillBeSent
    \/ RequestWillBeSent
    \/ RequestEmitted
    \/ DeliverResponseReceived
    \/ ResponseReceived
    \/ ResponseElement
    \/ ResponseBody
    \/ ResponseEmitted
    \/ DeliverLoadEvent
    \/ LoadDelayed
    \/ LoadDomLoaded
    \/ LoadDrained
    \/ LoadTraverse
    \/ TraverseElement
    \/ TraverseUp
    \/ LoadTraversed
    \/ LoadManifestMissing
    \/ LoadFaviconQueried
    \/ LoadFaviconStarted
    \/ LoadFaviconFetched
    \/ LoadFaviconDone
    \/ LoadTimer
    \/ LoadScanEnded

SpecHops == HopsInit /\ [][HopsNext]_vars

(***************************************************************************)
(* SpecLoop: a target that redirects to itself and then answers; the page  *)
(* loads.  The event loop runs every callback that stays or keeps becoming *)
(* ready, and the browser fires the load event of the page.                *)
(***************************************************************************)

\* The number of network events delivered (redirects apart).
LoopMaxSeq == 2

LoopScenario ==
    Scenario(
        {RequestParams(1, Target, "other", NoUrl),
         RequestParams(1, Target, "other", Target)},
        {ResponseParams(1, Target, "Document", 200)},
        {}, LoopMaxSeq, 1, RootOnly, {0})

LoopInit ==
    /\ CtIdle
    /\ scn = LoopScenario
    /\ Navigated

\* The steps of the load handler on a page of one element.
LoadStep ==
    \/ LoadDelayed
    \/ LoadDomLoaded
    \/ LoadTraverse
    \/ TraverseElement
    \/ TraverseUp
    \/ LoadTraversed
    \/ LoadManifestMissing
    \/ LoadFaviconQueried
    \/ LoadFaviconStarted
    \/ LoadFaviconFetched
    \/ LoadFaviconDone
    \/ LoadTimer
    \/ LoadScanEnded

LoopNext ==
    \/ DeliverRequestWillBeSent
    \/ RequestWillBeSent
    \/ RequestEmitted
    \/ DeliverResponseReceived
    \/ ResponseReceived
    \/ ResponseBody
    \/ ResponseEmitted
    \/ DeliverLoadEvent
    \/ LoadStep

SpecLoop ==
    /\ LoopInit
    /\ [][LoopNext]_vars
    /\ WF_vars(RequestWillBeSent)
    /\ WF_vars(ResponseReceived)
    /\ SF_vars(DeliverLoadEvent)
    /\ SF_vars(LoadStep)

(***************************************************************************)
(* SpecManifest: a page with one link rel=manifest; the manifest is        *)
(* requested once getManifest has asked the browser for it, and the        *)
(* request is answered (200 or 404, by the scenario) or fails.             *)
(***************************************************************************)

\* The number of network events delivered (redirects apart).
ManifestMaxSeq == 3

ManifestUrl == Url(0, ManifestPath)

\* An element and, under it, a link rel=manifest.
ManifestPage == [parent |-> <<0, 1>>, kind |-> <<"element", "manifest">>]

ManifestScenario(status) ==
    Scenario(
        {[requestId |-> 1, url |-> ManifestUrl, type |-> "Manifest",
          initiator |-> "other", redirect |-> NoUrl, status |-> 0]},
        {ResponseParams(1, ManifestUrl, "Manifest", status)},
        {FailedParams(1, "Manifest")},
        ManifestMaxSeq, 1, ManifestPage, {0, 2})

ManifestInit ==
    /\ CtIdle
    /\ scn \in {ManifestScenario(200), ManifestScenario(404)}
    /\ Navigated

ManifestNext ==
    \/ DeliverRequestWillBeSent
    \/ RequestWillBeSent
    \/ RequestEmitted
    \/ DeliverResponseReceived
    \/ ResponseReceived
    \/ ResponseElement
    \/ ResponseBody
    \/ ResponseEmitted
    \/ DeliverLoadingFailed
    \/ LoadingFailed
    \/ FailedEmitted
    \/ DeliverLoadEvent
    \/ LoadDelayed
    \/ LoadDomLoaded
    \/ LoadTraverse
    \/ TraverseManifestLink
    \/ TraverseElement
    \/ TraverseManifest
    \/ TraverseManifestThrows
    \/ TraverseManual
    \/ TraverseManualEmitted
    \/ TraverseDown
    \/ TraverseUp
    \/ LoadTraversed
    \/ LoadFaviconQueried
    \/ LoadFaviconStarted
    \/ LoadFaviconFetched
    \/ LoadFaviconDone
    \/ LoadTimer
    \/ LoadScanEnded

SpecManifest == ManifestInit /\ [][ManifestNext]_vars


(***************************************************************************)
(* close (lines 853-877).                                                  *)
(***************************************************************************)

closeFrame == <<finalHref, dom, pending, requests, redirects, errorWithPage,
                manifestIsSpecified, faviconLoaded, targetNetworkData,
                tasks, nSeq, loads, collectPc, netOn, callbacks, emitted,
                errorLog, hung, wire, comms, evalP, ctIn, ctOut, corr, scn>>

\* The try of lines 866-876 without a client: this._client.close() is a
\* TypeError, caught at 874.
CloseNoClient ==
    /\ closing' = [closing EXCEPT !.pc = "done"]
    /\ UNCHANGED client

\* The try of lines 866-876: this._client.close(), which may throw, then
\* the delay of line 873.
CloseClient ==
    IF client = "none"
    THEN CloseNoClient
    ELSE \E throws \in BOOLEAN :
            /\ closing' = [closing EXCEPT
                    !.pc = IF throws THEN "done" ELSE "delay",
                    !.clientCloseCalls = @ + 1]
            /\ client' = IF throws THEN client ELSE "closed"

\* The loop of lines 856-864 from its head, up to the next await: a tab is
\* popped and cdp.closeTab called with this._client.port.  Without a client
\* the argument is a TypeError, caught at 861 before any call is made, and
\* the loop goes round without suspending until the list is empty.
CloseTabs ==
    IF tabs = <<>>
    THEN CloseClient /\ UNCHANGED tabs
    ELSE IF client = "none"
         THEN /\ tabs' = <<>>
              /\ CloseNoClient
         ELSE /\ tabs' = SubSeq(tabs, 1, Len(tabs) - 1)
              /\ closing' = [closing EXCEPT
                      !.pc = "tab",
                      !.tab = tabs[Len(tabs)],
                      !.closeTabCalls = Append(@, tabs[Len(tabs)])]
              /\ UNCHANGED client

\* close is called, once collect has settled or stopped for good.
Close ==
    /\ closing.pc = "idle"
    /\ collectPc \in {"idle", "done", "navigated", "rejected"}
    /\ CloseTabs
    /\ UNCHANGED closeFrame

\* cdp.closeTab returns (860).
CloseTabReturned ==
    /\ closing.pc = "tab"
    /\ CloseTabs
    /\ UNCHANGED closeFrame

\* The catch of lines 861-863: logged, and the loop goes on.
CloseTabCatch ==
    \E c \in {[closing EXCEPT !.tabFailures = @ \cup {closing.tab}]} :
        IF tabs = <<>>
        THEN /\ UNCHANGED tabs
             /\ \E throws \in BOOLEAN :
                   /\ closing' = [c EXCEPT
                           !.pc = IF throws THEN "done" ELSE "delay",
                           !.clientCloseCalls = @ + 1]
                   /\ client' = IF throws THEN client ELSE "closed"
        ELSE /\ tabs' = SubSeq(tabs, 1, Len(tabs) - 1)
             /\ closing' = [c EXCEPT
                     !.pc = "tab",
                     !.tab = tabs[Len(tabs)],
                     !.closeTabCalls = Append(@, tabs[Len(tabs)])]
             /\ UNCHANGED client

\* cdp.closeTab throws (860).
CloseTabThrows ==
    /\ closing.pc = "tab"
    /\ CloseTabCatch
    /\ UNCHANGED closeFrame

\* The delay of line 873 is over: close returns.
CloseDelayed ==
    /\ closing.pc = "delay"
    /\ closing' = [closing EXCEPT !.pc = "done"]
    /\ UNCHANGED <<tabs, client>>
    /\ UNCHANGED closeFrame

(***************************************************************************)
(* SpecSession: collect up to the navigation request, then close.          *)
(***************************************************************************)

SessionInit ==
    /\ CtIdle
    /\ scn = NoScenario
    /\ Constructed

SessionNext ==
    \/ Collect
    \/ Launched
    \/ CommsThrows
    \/ Listed
    \/ NewTabOpened
    \/ Attached
    \/ AttachFails
    \/ RetryDelayed
    \/ SecurityReturned
    \/ SecurityThrows
    \/ EnableReturned
    \/ EnableThrows
    \/ CollectScanEnded
    \/ Close
    \/ CloseTabReturned
    \/ CloseTabThrows
    \/ CloseDelayed

SpecSession == SessionInit /\ [][SessionNext]_vars

(***************************************************************************)
(* SpecLife: one page-load event on a page with or without a manifest link *)
(* and an icon link, and one resource whose response may arrive before the *)
(* document exists, during the traversal or after it.                      *)
(***************************************************************************)

\* The number of network events delivered (redirects apart).
LifeMaxSeq == 2

\* An element and, under it, a link rel=icon.
IconPage == [parent |-> <<0, 1>>, kind |-> <<"element", "icon">>]

LifeScenario(tree) ==
    Scenario(
        {RequestParams(1, ResourceA, "parser", NoUrl)},
        {ResponseParams(1, ResourceA, "Image", 200)},
        {},
        LifeMaxSeq, 1, tree, {0} \cup Nodes(tree))

LifeInit ==
    /\ CtIdle
    /\ scn \in {LifeScenario(RootOnly), LifeScenario(ManifestPage),
                LifeScenario(IconPage)}
    /\ Navigated

LifeNext ==
    \/ DeliverRequestWillBeSent
    \/ RequestWillBeSent
    \/ RequestEmitted
    \/ DeliverResponseReceived
    \/ ResponseReceived
    \/ ResponseElement
    \/ ResponseBody
    \/ ResponseEmitted
    \/ DeliverLoadEvent
    \/ LoadDelayed
    \/ LoadDomLoaded
    \/ LoadDrained
    \/ LoadTraverse
    \/ TraverseManifestLink
    \/ TraverseElement
    \/ TraverseManifest
    \/ TraverseManifestThrows
    \/ TraverseManual
    \/ TraverseManualEmitted
    \/ TraverseDown
    \/ TraverseUp
    \/ LoadTraversed
    \/ LoadManifestMissing
    \/ LoadFaviconQueried
    \/ LoadFaviconStarted
    \/ LoadFaviconFetched
    \/ LoadFaviconDone
    \/ LoadTimer
    \/ LoadScanEnded

SpecLife == LifeInit /\ [][LifeNext]_vars

(***************************************************************************)
(* SpecRoot: the request of the target, its response and its loading       *)
(* failure, in any order the protocol allows, around one page-load event.  *)
(***************************************************************************)

\* The number of network events delivered (redirects apart).
RootMaxSeq == 3

RootScenario ==
    Scenario(
        {RequestParams(1, Target, "other", NoUrl)},
        {ResponseParams(1, Target, "Document", 200)},
        {FailedParams(1, "Document")},
        RootMaxSeq, 1, RootOnly, {0})

RootInit ==
    /\ CtIdle
    /\ scn = RootScenario
    /\ Navigated

RootNext ==
    \/ DeliverRequestWillBeSent
    \/ RequestWillBeSent
    \/ RequestEmitted
    \/ DeliverResponseReceived
    \/ ResponseReceived
    \/ ResponseBody
    \/ ResponseEmitted
    \/ DeliverLoadingFailed
    \/ LoadingFailed
    \/ DeliverLoadEvent
    \/ LoadDelayed
    \/ LoadDomLoaded
    \/ LoadTraverse
    \/ TraverseElement
    \/ TraverseUp
    \/ LoadTraversed
    \/ LoadManifestMissing
    \/ LoadFaviconQueried
    \/ LoadFaviconStarted
    \/ LoadFaviconFetched
    \/ LoadFaviconDone
    \/ LoadTimer
    \/ LoadScanEnded

SpecRoot == RootInit /\ [][RootNext]_vars

(***************************************************************************)
(* SpecFavicon: one request, for /favicon.ico of the target's origin or    *)
(* for another resource, its response and its loading failure.             *)
(***************************************************************************)

\* The number of network events delivered (redirects apart).
FaviconMaxSeq == 3

FaviconScenario(u) ==
    Scenario(
        {RequestParams(1, u, "other", NoUrl)},
        {ResponseParams(1, u, "Other", 200)},
        {FailedParams(1, "Other")},
        FaviconMaxSeq, 1, RootOnly, {0})

FaviconInit ==
    /\ CtIdle
    /\ scn \in {FaviconScenario(resolveFavicon(Target)),
                FaviconScenario(ResourceA)}
    /\ Navigated

SpecFavicon == FaviconInit /\ [][QueueNext]_vars

(***************************************************************************)
(* evaluate (lines 919-972).  The promise keeps its first settlement:      *)
(* resolve and reject are no-ops on a settled promise.                     *)
(***************************************************************************)

evalFrame == <<finalHref, dom, pending, requests, redirects, errorWithPage,
               manifestIsSpecified, faviconLoaded, targetNetworkData,
               tasks, nSeq, loads, collectPc, netOn, callbacks, emitted,
               errorLog, hung, wire, tabs, client, comms, closing,
               ctIn, ctOut, corr, scn>>

\* What Runtime.evaluate may answer: a value, a value carrying
\* __failedInBrowser, exceptionDetails, or a protocol error (a throw).
EvalAnswers == {"value", "marker", "exception", "throws"}

\* resolve(value) or reject(error) on the promise of line 921.
Settle(p, outcome) ==
    [p EXCEPT !.state = IF @ = "pending" THEN outcome ELSE @,
              !.settles = Append(@, outcome)]

\* A mutant of the lines below: the marker is not looked at.
EvaluateResult_IgnoreMarker(answer) ==
    CASE answer = "throws" -> "rejected: protocol error"
      [] answer = "exception" -> "rejected: driver error"
      [] OTHER -> "resolved"

\* Lines 955-970: what the promise is settled with for an answer.
EvaluateResult(answer) ==
    CASE answer = "throws" -> "rejected: protocol error"
      [] answer = "exception" -> "rejected: driver error"
      [] answer = "marker" -> "rejected: browser error"
      [] OTHER -> "resolved"

\* evaluate is called: the watchdog is set (923-926) and Runtime.evaluate
\* called (939); without a client that is a TypeError, caught at 966.
Evaluate ==
    /\ evalP.pc = "idle"
    /\ evalP' = IF client = "none"
                THEN [Settle(evalP, "rejected: protocol error") EXCEPT
                        !.pc = "done", !.timer = "cleared",
                        !.answer = "throws"]
                ELSE [evalP EXCEPT !.pc = "awaiting", !.timer = "set"]
    /\ UNCHANGED evalFrame

\* The watchdog fires (924-925).
EvaluateTimeout ==
    /\ evalP.timer = "set"
    /\ evalP' = [Settle(evalP, "rejected: timeout") EXCEPT !.timer = "fired"]
    /\ UNCHANGED evalFrame

\* Runtime.evaluate answers or throws (939-970), before or after the
\* watchdog: clearTimeout, then reject or resolve.
EvaluateAnswered ==
    /\ evalP.pc = "awaiting"
    /\ \E answer \in EvalAnswers :
          evalP' = [Settle(evalP, EvaluateResult(answer)) EXCEPT
                      !.pc = "done",
                      !.timer = IF @ = "set" THEN "cleared" ELSE @,
                      !.answer = answer]
    /\ UNCHANGED evalFrame

(***************************************************************************)
(* SpecEval: the session with one evaluate call at any time.  Timers fire: *)
(* the watchdog is weakly fair.                                            *)
(***************************************************************************)

EvalNext ==
    \/ SessionNext
    \/ Evaluate
    \/ EvaluateTimeout
    \/ EvaluateAnswered

SpecEval == SessionInit /\ [][EvalNext]_vars /\ WF_vars(EvaluateTimeout)

(***************************************************************************)
(* SpecRepeat: the target's URL is requested twice, as the document and    *)
(* once more by the page, and both requests are answered.                  *)
(***************************************************************************)

\* The number of network events delivered (redirects apart).
RepeatMaxSeq == 4

RepeatScenario ==
    Scenario(
        {RequestParams(1, Target, "other", NoUrl),
         RequestParams(2, Target, "script", NoUrl)},
        {ResponseParams(1, Target, "Document", 200),
         ResponseParams(2, Target, "XHR", 200)},
        {},
        RepeatMaxSeq, 0, RootOnly, {0})

RepeatInit ==
    /\ CtIdle
    /\ scn = RepeatScenario
    /\ Navigated

RepeatNext ==
    \/ DeliverRequestWillBeSent
    \/ RequestWillBeSent
    \/ RequestEmitted
    \/ DeliverResponseReceived
    \/ ResponseReceived
    \/ ResponseBody
    \/ ResponseEmitted

SpecRepeat == RepeatInit /\ [][RepeatNext]_vars

(***************************************************************************)
(* SpecClassify: one request, for the target or for a resource of the     *)
(* page, sent and answered at any time around the page-load handler; the   *)
(* resource's response is of type Script or Manifest.                      *)
(***************************************************************************)

\* The number of network events delivered (redirects apart).
ClassifyMaxSeq == 2

ClassifyScenario(u, initiator) ==
    Scenario(
        {RequestParams(1, u, initiator, NoUrl)},
        {ResponseParams(1, u, "Document", 200),
         ResponseParams(1, u, "Script", 200),
         ResponseParams(1, u, "Manifest", 404)},
        {},
        ClassifyMaxSeq, 1, RootOnly, {0})

ClassifyInit ==
    /\ CtIdle
    /\ scn \in {ClassifyScenario(Target, "other"),
                ClassifyScenario(ResourceA, "script")}
    /\ Navigated

ClassifyNext ==
    \/ DeliverRequestWillBeSent
    \/ RequestWillBeSent
    \/ RequestEmitted
    \/ DeliverResponseReceived
    \/ ResponseReceived
    \/ ResponseBody
    \/ ResponseEmitted
    \/ DeliverLoadEvent
    \/ LoadDelayed
    \/ LoadDomLoaded
    \/ LoadDrained
    \/ LoadTraverse
    \/ TraverseElement
    \/ TraverseUp
    \/ LoadTraversed
    \/ LoadManifestMissing
    \/ LoadFaviconQueried
    \/ LoadFaviconStarted
    \/ LoadFaviconFetched
    \/ LoadFaviconDone
    \/ LoadTimer
    \/ LoadScanEnded

SpecClassify == ClassifyInit /\ [][ClassifyNext]_vars

(***************************************************************************)
(* SpecElement: one resource of the page, requested by the parser or by a  *)
(* script, over http or as a data: URL, or answered without a request-sent *)
(* event; it is answered or fails at any time around the page-load         *)
(* handler.                                                                *)
(***************************************************************************)

\* The number of network events delivered (redirects apart).
ElementMaxSeq == 3

ElementScenario(reqs, u) ==
    Scenario(
        reqs,
        {ResponseParams(1, u, "Script", 200)},
        {FailedParams(1, "Script")},
        ElementMaxSeq, 1, RootOnly, {0, 1})

ElementInit ==
    /\ CtIdle
    /\ scn \in {ElementScenario({RequestParams(1, ResourceA, "parser", NoUrl)},
                                ResourceA),
                ElementScenario({RequestParams(1, ResourceA, "script", NoUrl)},
                                ResourceA),
                ElementScenario({RequestParams(1, DataUrl, "parser", NoUrl)},
                                DataUrl),
                ElementScenario({}, ResourceA)}
    /\ Navigated

SpecElement == ElementInit /\ [][QueueNext]_vars

(***************************************************************************)
(* SpecParser: one call of getElementFromParser, for any URL of up to      *)
(* MaxParts parts on any document of up to MaxElements elements.           *)
(***************************************************************************)

MaxParts == 3

MaxElements == 3

\* The parts of a URL: requestUrl.href.split('/') (line 160).  The last part
\* is empty when the URL ends with a slash.
UrlParts == {<<>>, <<"a">>, <<"b">>}

\* The src and href values of the document's elements.
AttrValues == {<<"a">>, <<"b">>, <<"b", "/", "a">>, <<"a", "/", "a">>,
               <<"b", "a">>, <<"a", "/", "b", "/", "a">>}

ParserInit ==
    /\ ctIn = [element |-> NoElement, resource |-> "https://example.test/",
               rawContent |-> Null, header |-> Null]
    /\ ctOut = CtUnset
    /\ scn = NoScenario
    /\ Constructed
    /\ \E n \in 0..MaxElements, k \in 1..MaxParts :
          \E doc \in [1..n -> AttrValues], parts \in [1..k -> UrlParts] :
             corr = [doc |-> doc, parts |-> parts, out |-> CorrUnset]

\* The call of line 167.
Correlate ==
    /\ corr.out = CorrUnset
    /\ corr' = [corr EXCEPT !.out = getElementFromParser(corr.doc, corr.parts)]
    /\ UNCHANGED <<ctIn, ctOut, scn, connVars>>

ParserNext == Correlate

SpecParser == ParserInit /\ [][ParserNext]_vars

(***************************************************************************)
(* SpecReload: the page fires its load event up to MaxLoads times during   *)
(* one collection (the page reloads or navigates on); no network event is  *)
(* in the way.                                                             *)
(***************************************************************************)

MaxLoads == 2

ReloadInit ==
    /\ CtIdle
    /\ scn = Scenario({}, {}, {}, 0, MaxLoads, RootOnly, {0})
    /\ Navigated

ReloadNext ==
    \/ DeliverLoadEvent
    \/ LoadDelayed
    \/ LoadDomLoaded
    \/ LoadTraverse
    \/ TraverseElement
    \/ TraverseUp
    \/ LoadTraversed
    \/ LoadManifestMissing
    \/ LoadFaviconQueried
    \/ LoadFaviconStarted
    \/ LoadFaviconFetched
    \/ LoadFaviconDone
    \/ LoadTimer
    \/ LoadScanEnded

SpecReload == ReloadInit /\ [][ReloadNext]_vars

(***************************************************************************)
(* SpecFailure: one request, for the target or for a resource of the page, *)
(* that fails, with or without a response before, at any time around the   *)
(* page-load handler; the failure is of type Script or Manifest.           *)
(***************************************************************************)

\* The number of network events delivered (redirects apart).
FailureMaxSeq == 3

FailureScenario(u, initiator) ==
    Scenario(
        {RequestParams(1, u, initiator, NoUrl)},
        {ResponseParams(1, u, "Script", 200)},
        {FailedParams(1, "Script"), FailedParams(1, "Manifest")},
        FailureMaxSeq, 1, RootOnly, {0, 1})

FailureInit ==
    /\ CtIdle
    /\ scn \in {FailureScenario(Target, "other"),
                FailureScenario(ResourceA, "parser")}
    /\ Navigated

SpecFailure == FailureInit /\ [][QueueNext]_vars

(***************************************************************************)
(* SpecDrain: one resource of the page, requested and then answered or     *)
(* failing at any time around the page-load handler, on a page with or     *)
(* without a manifest link.  The event loop runs every callback that is    *)
(* ready: a protocol round trip, an emitter call or a timer that has       *)
(* returned; the browser is free to deliver its events or not.             *)
(***************************************************************************)

\* The number of network events delivered (redirects apart).
DrainMaxSeq == 2

DrainScenario(tree) ==
    Scenario(
        {RequestParams(1, ResourceA, "parser", NoUrl)},
        {ResponseParams(1, ResourceA, "Image", 200)},
        {FailedParams(1, "Image")},
        DrainMaxSeq, 1, tree, {0} \cup Nodes(tree))

DrainInit ==
    /\ CtIdle
    /\ scn \in {DrainScenario(RootOnly), DrainScenario(ManifestPage)}
    /\ Navigated

\* The steps of the handlers: everything but the browser's deliveries.
HandlerStep ==
    \/ RequestWillBeSent
    \/ RequestEmitted
    \/ ResponseReceived
    \/ ResponseElement
    \/ ResponseBody
    \/ ResponseEmitted
    \/ LoadingFailed
    \/ FailedElement
    \/ FailedElementUnloaded
    \/ FailedEmitted
    \/ LoadDelayed
    \/ LoadDomLoaded
    \/ LoadDrained
    \/ LoadTraverse
    \/ TraverseManifestLink
    \/ TraverseElement
    \/ TraverseManifest
    \/ TraverseManifestThrows
    \/ TraverseManual
    \/ TraverseManualEmitted
    \/ TraverseDown
    \/ TraverseUp
    \/ LoadTraversed
    \/ LoadManifestMissing
    \/ LoadFaviconQueried
    \/ LoadFaviconStarted
    \/ LoadFaviconFetched
    \/ LoadFaviconDone
    \/ LoadTimer
    \/ LoadScanEnded

DrainNext ==
    \/ DeliverRequestWillBeSent
    \/ DeliverResponseReceived
    \/ DeliverLoadingFailed
    \/ DeliverLoadEvent
    \/ HandlerStep

SpecDrain == DrainInit /\ [][DrainNext]_vars /\ WF_vars(HandlerStep)

(***************************************************************************)
(* Properties of the content-type resolver, checked under SpecCT.          *)
(***************************************************************************)

CtDone == ctOut # CtUnset

\* The media type the claim assigns to an element, from its raw attributes.
ClaimedElementType(element) ==
    CASE element.nodeName = "SCRIPT"
           /\ element.type \in {Null, "", "module"} \cup validJavaScriptMediaTypes
           -> "text/javascript"
      [] element.nodeName = "LINK" /\ element.rel = "stylesheet" -> "text/css"
      [] element.nodeName = "LINK" /\ element.rel = "manifest"
           -> "application/manifest+json"
      [] OTHER -> Null

\* C7: when the originating element yields a media type (script with an
\* absent, empty, standard JavaScript or "module" type; link rel=stylesheet;
\* link rel=manifest), getContentTypeData returns that media type whatever
\* the raw bytes, the resource's extension and the Content-Type header are.
C7_ElementLayerWins ==
    (CtDone /\ ClaimedElementType(ctIn.element) # Null)
        => ctOut.mediaType = ClaimedElementType(ctIn.element)

\* A script without a type attribute, served as application/octet-stream with
\* a sniffable PNG body and a .png name, resolved to text/javascript.
C7_Witness ==
    /\ CtDone
    /\ ctIn.element = [nodeName |-> "SCRIPT", type |-> Null, rel |-> Null]
    /\ ctIn.header = "application/octet-stream"
    /\ ctIn.rawContent = "png-bytes"
    /\ ctIn.resource = "https://example.test/a.png"
    /\ ctOut.mediaType = "text/javascript"

\* C8: when the element layer yields nothing, the media type is the first
\* value yielded by byte sniffing, then the file extension, then the parsed
\* Content-Type header; an empty or malformed header yields nothing, and the
\* result is null when no layer yields a value.
C8_LayerPrecedence ==
    LET sniffed == determineMediaTypeBasedOnFileType(ctIn.rawContent)
        byExt == determineMediaTypeBasedOnFileExtension(ctIn.resource)
        declared == IF ctIn.header \in {Null, "", "text/html; charset"}
                    THEN Null
                    ELSE parse(NormalizeString(ctIn.header)).type
    IN  (CtDone /\ determineMediaTypeBasedOnElement(ctIn.element) = Null)
            => /\ sniffed # Null => ctOut.mediaType = sniffed
               /\ (sniffed = Null /\ byExt # Null) => ctOut.mediaType = byExt
               /\ (sniffed = Null /\ byExt = Null) => ctOut.mediaType = declared

\* An SVG body served as text/plain under a .html name resolves by sniffing;
\* the state is one where all three lower layers disagree.
C8_Witness ==
    /\ CtDone
    /\ ctIn.element = NoElement
    /\ ctIn.rawContent = "svg-text"
    /\ ctIn.resource = "https://example.test/a.html"
    /\ ctIn.header = "text/plain"
    /\ ctOut.mediaType = "image/svg+xml"

\* The charset parameter the Content-Type header declares (Null when the
\* header is absent, malformed or has no charset parameter).
DeclaredCharset == parseContentTypeHeader(ctIn.header).charset

\* C9: for a text-family resolved media type and a (non-empty) charset
\* declared in the Content-Type header, the resolved charset is the declared
\* one after alias normalization (iso-8859-1 becomes latin1); it is never
\* replaced by utf-8 or by the media type's inherent charset.
C9_DeclaredCharsetKept ==
    (CtDone /\ isTextMediaType(ctOut.mediaType) /\ Truthy(DeclaredCharset))
        => ctOut.charset = (IF DeclaredCharset = "iso-8859-1" THEN "latin1"
                            ELSE DeclaredCharset)

\* A style sheet (inherent charset utf-8) declared as iso-8859-1 keeps latin1.
C9_Witness ==
    /\ CtDone
    /\ ctIn.header = "text/css; charset=iso-8859-1"
    /\ ctOut.mediaType = "text/css"
    /\ mimeDBCharset(ctOut.mediaType) = "utf-8"
    /\ ctOut.charset = "latin1"

(***************************************************************************)
(* Properties of the redirect bookkeeping, checked under SpecRedir.        *)
(***************************************************************************)

\* The URLs of the scenario's request-sent events.
ScenarioUrls == {p.url : p \in scn.requests}

StartNames == {"fetch::start", "targetfetch::start"}

\* A request-sent handler is about to run on a self-redirect.
SelfRedirectStarting ==
    \E t \in tasks : t.kind = "request" /\ t.pc = "start"
                     /\ t.redirect # NoUrl /\ t.url = t.redirect

\* C3: a request-sent event whose request URL equals the URL of its redirect
\* response leaves the redirect tracker and finalHref unchanged and emits no
\* event: the self-redirect is never added to a chain.
C3_SelfRedirectNoOp ==
    [][SelfRedirectStarting =>
          /\ redirects' = redirects
          /\ finalHref' = finalHref
          /\ emitted' = emitted]_vars

\* The self-redirect of a URL in the middle of a recorded chain was handled.
C3_Witness ==
    /\ <<"loop", ChainUrl(1)>> \in errorLog
    /\ <<ChainUrl(1), Target>> \in redirects
    /\ tasks = {}

\* C4 (as claimed): after any sequence of request-sent events the hop list
\* computed for any URL has at most 10 entries.
C4_ChainAtMostTenHops ==
    \A u \in ScenarioUrls :
        ~Cyclic(redirects, u) => Len(calculate(u)) <= MaxHops

\* C5: a request-sent event that carries a redirect response never emits
\* fetch::start or targetfetch::start, whether the redirect is accepted,
\* rejected as a loop or rejected for the hop limit, and its handler never
\* waits at a suspension point: the bookkeeping is done when it returns.
C5_RedirectEmitsNoStart ==
    /\ \A i \in 1..Len(emitted) :
          emitted[i].name \in StartNames => emitted[i].by.redirect = NoUrl
    /\ \A t \in tasks :
          (t.kind = "request" /\ t.redirect # NoUrl) => t.pc = "start"

\* All three outcomes of a redirect have happened, next to a plain request
\* that did emit its start event.
C5_Witness ==
    /\ \E u \in ScenarioUrls : <<"loop", u>> \in errorLog
    /\ \E u \in ScenarioUrls : <<"limit", u>> \in errorLog
    /\ redirects # {}
    /\ \E i \in 1..Len(emitted) : emitted[i].name \in StartNames
    /\ tasks = {}

(***************************************************************************)
(* Properties of the traversal, checked under SpecTraverse.                *)
(***************************************************************************)

IsElementEvent(e) == e.name \in {"element::div", "element::link"}

IsTraversalEvent(e) ==
    IsElementEvent(e) \/ e.name \in {"traverse::down", "traverse::up"}

\* The traversal's events in the order of their emission, as <<class, node>>.
TraversalStream ==
    LET evs == SelectSeq(emitted, IsTraversalEvent)
    IN  [i \in 1..Len(evs) |->
            <<IF IsElementEvent(evs[i]) THEN "element" ELSE evs[i].name,
              evs[i].node>>]

Occurrences(stream, x) == Cardinality({i \in 1..Len(stream) : stream[i] = x})

\* The traversal has returned.
TraverseDone == \E i \in 1..Len(emitted) : emitted[i].name = "traverse::end"

\* The visited nodes: those an element event was emitted for.
Visited == {n \in Nodes(scn.tree) : Occurrences(TraversalStream, <<"element", n>>) > 0}

\* A root with three leaf children, all of them elements.
ThreeLeaves ==
    /\ scn.tree.parent = <<0, 1, 1, 1>>
    /\ \A n \in 1..4 : scn.tree.kind[n] # "ignored"

\* One traverse::up per visited node, one traverse::down per edge.
OneUpPerNodeOneDownPerEdge ==
    /\ \A n \in Nodes(scn.tree) :
          Occurrences(TraversalStream, <<"traverse::up", n>>)
              = (IF n \in Visited THEN 1 ELSE 0)
    /\ \A n \in Nodes(scn.tree) :
          Occurrences(TraversalStream, <<"traverse::down", n>>)
              = (IF n = 1 THEN 0 ELSE 1)
    /\ \A n \in Nodes(scn.tree) :
          Occurrences(TraversalStream, <<"element", n>>)
              = (IF scn.tree.kind[n] = "ignored" THEN 0 ELSE 1)

\* C6 (as claimed): one traverse::up per visited node and one traverse::down
\* per parent-child edge, and for a root with three leaf children the
\* emitted sequence is element(root), down, element(child1), up, down,
\* element(child2), up, down, element(child3), up.
C6_SequenceAsClaimed ==
    TraverseDone =>
        /\ OneUpPerNodeOneDownPerEdge
        /\ ThreeLeaves =>
              TraversalStream =
                  << <<"element", 1>>,
                     <<"traverse::down", 2>>, <<"element", 2>>, <<"traverse::up", 2>>,
                     <<"traverse::down", 3>>, <<"element", 3>>, <<"traverse::up", 3>>,
                     <<"traverse::down", 4>>, <<"element", 4>>, <<"traverse::up", 4>> >>

\* C6 (amended): one traverse::up per node an element event was emitted for
\* and one traverse::down per parent-child edge (also the edge to a node of
\* the ignored type, which gets no element event and no traverse::up); for a
\* root with three leaf children the emitted sequence is element(root), down,
\* element(child1), up, down, element(child2), up, down, element(child3), up,
\* up: it ends with the traverse::up of the root.
C6_TraversalBrackets ==
    TraverseDone =>
        /\ OneUpPerNodeOneDownPerEdge
        /\ ThreeLeaves =>
              TraversalStream =
                  << <<"element", 1>>,
                     <<"traverse::down", 2>>, <<"element", 2>>, <<"traverse::up", 2>>,
                     <<"traverse::down", 3>>, <<"element", 3>>, <<"traverse::up", 3>>,
                     <<"traverse::down", 4>>, <<"element", 4>>, <<"traverse::up", 4>>,
                     <<"traverse::up", 1>> >>

\* The traversal of a root with three leaf children has returned.
C6_Witness ==
    /\ TraverseDone
    /\ ThreeLeaves
    /\ Occurrences(TraversalStream, <<"traverse::up", 1>>) = 1

(***************************************************************************)
(* Properties of the pending queue, checked under SpecQueue.               *)
(***************************************************************************)

QueueNames == {"fetch::end", "manifestfetch::end", "fetch::error"}

\* An event emitted for a response-received or loading-failed event that
\* arrived before the DOM was available, that is, loaded.
FromBeforeDom(e) ==
    /\ e.by.kind \in {"response", "failed"}
    /\ e.by.atDom # "loaded"
    /\ e.name \in QueueNames

\* C1 (as claimed): the response-received and loading-failed events that
\* arrive before the DOM is available are queued, and the fetch::end,
\* manifestfetch::end and fetch::error events they finally emit appear in
\* the order in which the network events arrived, whenever the load event
\* fires and whatever is delivered while the drain is suspended.
C1_QueuedInArrivalOrder ==
    /\ \A i \in 1..Len(emitted) : FromBeforeDom(emitted[i]) => emitted[i].by.queued
    /\ \A i, j \in 1..Len(emitted) :
          (i < j /\ FromBeforeDom(emitted[i]) /\ FromBeforeDom(emitted[j]))
              => emitted[i].by.seq < emitted[j].by.seq

(***************************************************************************)
(* Properties of the hops of a response, checked under SpecHops.           *)
(***************************************************************************)

\* Event e is the end event of a response-received event for c, emitted
\* when the accepted redirects a -> b and b -> c were on record (a itself
\* not redirected from anywhere) and no redirect was recorded while the
\* handler ran.
EndOfChain(e, a, b, c) ==
    /\ e.name \in EndNames
    /\ e.by.kind = "response"
    /\ e.by.stable
    /\ e.resource = c
    /\ <<b, a>> \in e.map
    /\ <<c, b>> \in e.map
    /\ ~RedirectHas(e.map, a)

\* C2: after request-sent events that record the accepted redirects A -> B
\* and then B -> C, the response-received event for C is emitted with hops
\* equal to <<A, B>>, oldest first, and with request.url equal to A.
C2_HopsOldestFirst ==
    \A i \in 1..Len(emitted) :
        \A a, b \in ScenarioUrls :
            EndOfChain(emitted[i], a, b, emitted[i].resource)
                => /\ emitted[i].hops = <<a, b>>
                   /\ emitted[i].requrl = a

\* The response for the resource's second redirect was queued, replayed and
\* emitted with both hops.
C2_Witness ==
    \E i \in 1..Len(emitted) :
        /\ EndOfChain(emitted[i], ResourceA, ResourceB, ResourceC)
        /\ emitted[i].by.queued
        /\ emitted[i].hops = <<ResourceA, ResourceB>>

(***************************************************************************)
(* Properties of a collection whose target redirects to itself, checked    *)
(* under SpecLoop.                                                         *)
(***************************************************************************)

\* C10: a collection whose target redirects once to the target URL itself
\* is flagged as an infinite-loop error when the request-sent handler runs,
\* and does not hang: once flagged, the collect call eventually invokes its
\* completion callback.
C10_SelfRedirectCompletes ==
    /\ [][SelfRedirectStarting => <<"loop", Target>> \in errorLog']_vars
    /\ (<<"loop", Target>> \in errorLog) ~> (callbacks # <<>>)

\* The target's redirect to itself was flagged before the page loaded, and
\* the collection completed.
C10_Witness ==
    /\ <<"loop", Target>> \in errorLog
    /\ redirects = {}
    /\ callbacks = <<"ok">>

(***************************************************************************)
(* Properties of the manifest flow, checked under SpecManifest.            *)
(***************************************************************************)

Emitted(name) == \E i \in 1..Len(emitted) : emitted[i].name = name

\* The manifest request was answered with status 404 and did not fail, its
\* handler is over and the collection has completed.
Manifest404Done ==
    /\ \A p \in scn.responses : p.status = 404
    /\ wire[1] = "responded"
    /\ tasks = {}
    /\ callbacks = <<"ok">>

\* C11 (as claimed): when the traversed page has a link rel=manifest whose
\* manifest request is answered with status 404, manifestfetch::error is
\* emitted for it, and neither manifestfetch::end nor
\* manifestfetch::missing.
C11_Manifest404IsError ==
    Manifest404Done =>
        /\ Emitted("manifestfetch::error")
        /\ ~Emitted("manifestfetch::end")
        /\ ~Emitted("manifestfetch::missing")

(***************************************************************************)
(* Properties of the session, checked under SpecSession.                   *)
(***************************************************************************)

Called(err) == \E i \in 1..Len(callbacks) : callbacks[i] = err

\* C12 (as claimed): tab acquisition retries a failed client attach at most
\* 3 times, so makes at most 4 attach attempts, waits a linearly growing
\* delay before each retry and then fails with the attach error; and every
\* path by which collect attaches retries so: the attach error is reported
\* only after the third retry.
C12_AtMostThreeRetries ==
    /\ comms.attempts <= 4
    /\ Len(comms.delays) <= 3
    /\ \A i \in 1..Len(comms.delays) :
          comms.delays[i] = comms.delays[1] + (i - 1) * RetryStep
    /\ Called("attach error") => Len(comms.delays) = 3

\* The failure of configureAndEnableCDP or of Page.navigate has been
\* reported.
EnableFailureReported == Called("enable error") \/ Called("navigate error")

\* C13: when enabling the protocol domains or the navigation request fails,
\* collect emits scan::end and only then calls the completion callback,
\* once, with that error: while the emitter is awaited the callback has not
\* been called, and nothing is emitted between scan::end and the callback.
C13_EnableFailureEndsScan ==
    /\ EnableFailureReported =>
          /\ emitted[Len(emitted)].name = "scan::end"
          /\ callbacks = <<comms.error>>
          /\ collectPc = "done"
    /\ collectPc = "scanend" =>
          /\ emitted[Len(emitted)].name = "scan::end"
          /\ comms.error \in {"enable error", "navigate error"}
          /\ callbacks = <<>>

C13_Witness ==
    /\ callbacks = <<"navigate error">>
    /\ client = "open"
    /\ Emitted("scan::end")

\* The tabs collect has tracked: those listed, once getClient has returned
\* (line 624), or the one opened (line 632).
TrackedByCollect ==
    IF comms.viaGetClient
    THEN IF client = "none" THEN {} ELSE {comms.listed[i] : i \in 1..Len(comms.listed)}
    ELSE IF comms.tab = 0 THEN {} ELSE {comms.tab}

\* C18 (as claimed): close returns without throwing in every state of the
\* connector, a collection that failed before a client was attached
\* included; it has then asked the browser to close every tracked tab,
\* whatever the outcome for the tabs before it, the tab list is empty and
\* the connection has been asked to close.
C18_CloseClosesEveryTab ==
    closing.pc = "done" =>
        /\ ~closing.threw
        /\ tabs = <<>>
        /\ {closing.closeTabCalls[i] : i \in 1..Len(closing.closeTabCalls)}
              = TrackedByCollect
        /\ client # "none" => closing.clientCloseCalls = 1

(***************************************************************************)
(* Properties of the load handler, checked under SpecLife.                 *)
(***************************************************************************)

Indexes(name) == {i \in 1..Len(emitted) : emitted[i].name = name}

\* The events of the favicon probe: getFavicon emits them itself, not a
\* network handler.
IsProbeEvent(e) ==
    /\ e.by = NoBy
    /\ e.name \in {"fetch::start", "fetch::end", "fetch::error"}

\* At position i a response handler has reported the element of a link
\* rel=icon, which sets _faviconLoaded.
FaviconObservedAt(i) ==
    /\ emitted[i].by.kind = "response"
    /\ IsIcon(emitted[i].element)

\* C14: on a successful collection scan::start comes first, then one
\* traverse::start, then every element::*, traverse::down and traverse::up
\* event, then one traverse::end, then manifestfetch::missing, only if no
\* manifest link was seen, then the events of the favicon probe, only if no
\* favicon was observed before, then one scan::end, and the callback
\* reports success after it; and once traverse::start is emitted the
\* pending queue is empty and every queued event has been replayed to its
\* end.
C14_LifecycleOrder ==
    /\ Emitted("traverse::start") =>
          /\ pending = <<>>
          /\ \A t \in tasks : ~t.queued
          /\ \A i, j \in 1..Len(emitted) :
                (emitted[i].name = "traverse::start" /\ emitted[j].by.queued)
                    => j < i
    /\ callbacks # <<>> /\ callbacks[1] = "ok" =>
          /\ Emitted("scan::end")
          /\ callbacks = <<"ok">>
    /\ \A se \in Indexes("scan::end") :
          /\ Indexes("scan::start") = {1}
          /\ Indexes("scan::end") = {se}
          /\ \E ts, te \in 1..se :
                /\ Indexes("traverse::start") = {ts}
                /\ Indexes("traverse::end") = {te}
                /\ 1 < ts /\ ts < te /\ te < se
                /\ \A i \in 1..Len(emitted) :
                      /\ IsTraversalEvent(emitted[i]) => ts < i /\ i < te
                      /\ emitted[i].name = "manifestfetch::missing" =>
                            /\ te < i /\ i < se
                            /\ ~manifestIsSpecified
                            /\ Indexes("manifestfetch::missing") = {i}
                      /\ IsProbeEvent(emitted[i]) =>
                            /\ te < i /\ i < se
                            /\ \A j \in Indexes("manifestfetch::missing") : j < i
                            /\ \A j \in 1..te : ~FaviconObservedAt(j)
                /\ ~manifestIsSpecified => Emitted("manifestfetch::missing")
                /\ (\A j \in 1..se : ~FaviconObservedAt(j))
                      => \E i \in 1..se : IsProbeEvent(emitted[i])

\* A successful collection of a page without a manifest link, whose queue
\* held the response of the resource.
C14_Witness ==
    /\ callbacks = <<"ok">>
    /\ Emitted("manifestfetch::missing")
    /\ \E i \in 1..Len(emitted) : IsProbeEvent(emitted[i])
    /\ \E i \in 1..Len(emitted) : emitted[i].by.queued

(***************************************************************************)
(* Properties of the target's failure, checked under SpecRoot.             *)
(***************************************************************************)

NewEvents == {emitted'[i] : i \in (Len(emitted) + 1)..Len(emitted')}

\* C15 (as claimed): once a loading-failed event for the target has been
\* delivered, at whatever time of the collection, no step calls the
\* completion callback with success and no step emits traverse::start,
\* element::*, traverse::end or scan::end.
C15_RootFailureAborts ==
    [][wire[1] = "failed" =>
          /\ callbacks' \in {callbacks, Append(callbacks, "error")}
          /\ \A e \in NewEvents :
                /\ ~IsElementEvent(e)
                /\ e.name \notin {"traverse::start", "traverse::end",
                                  "scan::end"}]_vars

(***************************************************************************)
(* Properties of the root favicon, checked under SpecFavicon.              *)
(***************************************************************************)

\* C16 (as claimed): no network handler emits fetch::start, fetch::end or
\* fetch::error for the URL /favicon.ico resolved against finalHref.
C16_RootFaviconSilent ==
    \A i \in 1..Len(emitted) :
        (/\ emitted[i].by.kind \in {"request", "response", "failed"}
         /\ emitted[i].name \in {"fetch::start", "fetch::end", "fetch::error"})
            => emitted[i].resource # resolveFavicon(finalHref)

(***************************************************************************)
(* Properties of evaluate, checked under SpecEval.                         *)
(***************************************************************************)

\* The outcome the claim gives a call: rejected by the watchdog when it
\* fired before any answer, else by the answer.
ClaimedOutcome ==
    IF evalP.timer = "fired" THEN "rejected: timeout"
    ELSE CASE evalP.answer = "none" -> "pending"
           [] evalP.answer = "value" -> "resolved"
           [] evalP.answer = "marker" -> "rejected: browser error"
           [] evalP.answer = "exception" -> "rejected: driver error"
           [] OTHER -> "rejected: protocol error"

\* The promise holds what the claim says, and it is the first settlement.
EvaluateOutcome ==
    /\ evalP.state = ClaimedOutcome
    /\ evalP.state = IF evalP.settles = <<>> THEN "pending"
                     ELSE evalP.settles[1]

\* C17: every evaluate call settles, and once: it rejects when the watchdog
\* fires before the browser has answered, rejects when the answer carries
\* the browser-side error marker or exception details, and resolves
\* otherwise; an answer that comes after the watchdog fired leaves the
\* rejection as it is.
C17_EvaluateSettlesOnce ==
    /\ []EvaluateOutcome
    /\ [][evalP.state # "pending" => evalP'.state = evalP.state]_vars
    /\ (evalP.pc # "idle") ~> (evalP.state # "pending")

\* The browser answered with a value after the watchdog had fired.
C17_Witness ==
    /\ evalP.timer = "fired"
    /\ evalP.answer = "value"
    /\ evalP.settles = <<"rejected: timeout", "resolved">>
    /\ evalP.state = "rejected: timeout"

(***************************************************************************)
(* Properties of the end of the scan, checked under SpecLife, and of the   *)
(* queue, checked under SpecQueue.                                         *)
(***************************************************************************)

\* The lifecycle events of the claim: fetch::*, manifestfetch::*,
\* traverse::* and element::*.
LateNames ==
    {"fetch::start", "fetch::end", "fetch::error", "manifestfetch::end",
     "manifestfetch::error", "manifestfetch::missing", "traverse::start",
     "traverse::end", "traverse::down", "traverse::up", "element::div",
     "element::link"}

\* C19 (as claimed): scan::end is emitted at most once in a collection, and
\* no fetch::*, manifestfetch::*, traverse::* or element::* event is
\* emitted after it, whenever the late network events arrive.
C19_ScanEndTerminal ==
    \A i, j \in 1..Len(emitted) :
        (emitted[i].name = "scan::end" /\ i < j)
            => /\ emitted[j].name # "scan::end"
               /\ emitted[j].name \notin LateNames

\* A response that is not the target's, or a loading failure that is not a
\* manifest's and not the target's.
Correlated(by) ==
    \/ by.kind = "response" /\ by.url # href
    \/ by.kind = "failed" /\ by.type # "Manifest"

\* C20 (as claimed): a response-received event that is not the target's and
\* a loading-failed event that is not a manifest's, delivered before the
\* document has finished loading, the time of its load included, is
\* queued: only the replay queries the DOM for its element and emits its
\* fetch::end or fetch::error.
C20_QueuedUntilDomLoaded ==
    /\ \A t \in tasks :
          (Correlated(t) /\ t.pc \in {"elem", "body", "emit"})
              => (t.atDom = "loaded" \/ t.queued)
    /\ \A i \in 1..Len(emitted) :
          (/\ Correlated(emitted[i].by)
           /\ emitted[i].name \in {"fetch::end", "fetch::error"})
              => (emitted[i].by.atDom = "loaded" \/ emitted[i].by.queued)

(***************************************************************************)
(* Further properties of the traversal, checked under SpecTraverse.        *)
(***************************************************************************)

\* a is a proper ancestor of d in the page's tree.
RECURSIVE IsAncestor(_, _)
IsAncestor(a, d) ==
    /\ d # 0
    /\ scn.tree.parent[d] # 0
    /\ (scn.tree.parent[d] = a \/ IsAncestor(a, scn.tree.parent[d]))

\* The positions of an event in a stream of traversal events.
StreamIndexes(stream, x) == {i \in 1..Len(stream) : stream[i] = x}

\* C21: the traversal is pre-order in document order: the element event of
\* a visited node comes before every event of its descendants and its one
\* traverse::up after all of them; a visited node other than the root is
\* entered right after one traverse::down; and of two visited siblings the
\* one earlier in the child list is left (traverse::up) before the
\* traverse::down of the later one.
C21_PreOrder ==
    TraverseDone =>
        LET stream == TraversalStream
            visited == {n \in Nodes(scn.tree) :
                          StreamIndexes(stream, <<"element", n>>) # {}}
        IN  \A n \in visited :
                \E e, u \in 1..Len(stream) :
                    /\ StreamIndexes(stream, <<"element", n>>) = {e}
                    /\ StreamIndexes(stream, <<"traverse::up", n>>) = {u}
                    /\ e < u
                    /\ \A i \in 1..Len(stream) :
                          IsAncestor(n, stream[i][2]) => (e < i /\ i < u)
                    /\ n # 1 =>
                          /\ StreamIndexes(stream, <<"traverse::down", n>>)
                                = {e - 1}
                          /\ scn.tree.parent[n] \in visited
                    /\ \A m \in visited :
                          (scn.tree.parent[m] = scn.tree.parent[n] /\ n < m)
                              => \A d \in StreamIndexes(stream,
                                                        <<"traverse::down", m>>) :
                                    u < d

\* A finished traversal of a page with two levels below the root and two
\* children of the root, the deeper node after its parent's sibling in the
\* numbering.
C21_Witness ==
    /\ TraverseDone
    /\ scn.tree.parent = <<0, 1, 1, 2>>
    /\ Visited = 1..4

\* C22 (as claimed): a node of the ignored type contributes no element::*,
\* traverse::down or traverse::up event, and every traverse::down is
\* matched by a later traverse::up of the node it went down to.
C22_IgnoredNodeLeavesNoTrace ==
    TraverseDone =>
        LET stream == TraversalStream
        IN  /\ \A i \in 1..Len(stream) :
                  scn.tree.kind[stream[i][2]] # "ignored"
            /\ \A i \in 1..Len(stream) :
                  stream[i][1] = "traverse::down"
                      => \E j \in (i + 1)..Len(stream) :
                            stream[j] = <<"traverse::up", stream[i][2]>>

(***************************************************************************)
(* Further properties of the content-type resolver, checked under SpecCT.  *)
(***************************************************************************)

\* The text family as the claim lists it: text/*, the XML and JSON
\* variants, and SVG.
ClaimedTextFamily(mediaType) ==
    \/ mediaType \in {"text/html", "text/css", "text/javascript", "text/plain"}
    \/ mediaType \in {"application/json", "application/xml",
                      "application/manifest+json", "application/xhtml+xml",
                      "application/ld+json"}
    \/ mediaType = "image/svg+xml"

\* The charset rule of the claim for a resolved media type that is, or is
\* not, of the text family.
CharsetRule(textFamily) ==
    LET declared == DeclaredCharset
        inherent == mimeDBCharset(ctOut.mediaType)
    IN  /\ ~textFamily =>
              ctOut.charset = (IF Truthy(declared) /\ declared = inherent
                               THEN declared ELSE Null)
        /\ (textFamily /\ ~Truthy(declared)) =>
              ctOut.charset = (IF Truthy(inherent) THEN inherent ELSE "utf-8")

ManifestLinksVisited ==
    {i \in 1..Len(emitted) :
        /\ emitted[i].name = "element::link"
        /\ scn.tree.kind[emitted[i].node] = "manifest"}

\* The load handler is past the test of lines 760-762.
PastManifestTest ==
    \E k \in 1..Len(loads) :
        loads[k].pc \in {"mmissing", "fquery", "fstart", "ffetch", "fdone",
                         "timer", "scanend"}
        \/ (loads[k].pc = "done" /\ TraverseDone)

\* C24: in a collection that reaches traverse::end, manifestfetch::missing
\* is emitted exactly when no link rel=manifest was visited during the
\* traversal, at most once, and after traverse::end.
C24_MissingIffNoManifestLink ==
    LET missing == Indexes("manifestfetch::missing")
    IN  /\ Cardinality(missing) <= 1
        /\ \A i \in missing :
              /\ \E j \in Indexes("traverse::end") : j < i
              /\ ManifestLinksVisited = {}
        /\ PastManifestTest => (missing # {} <=> ManifestLinksVisited = {})

\* Both cases: a page with no manifest link whose collection is over with
\* the event emitted.
C24_Witness ==
    /\ PastManifestTest
    /\ Len(scn.tree.parent) = 3
    /\ ManifestLinksVisited = {}
    /\ Cardinality(Indexes("manifestfetch::missing")) = 1
    /\ callbacks = <<"ok">>

\* The nodes getManifest has been called for (line 566): the visited
\* link rel=manifest elements whose element event has returned.
ManifestTriggers ==
    {n \in Nodes(scn.tree) :
        /\ \E i \in ManifestLinksVisited : emitted[i].node = n
        /\ ~\E k \in 1..Len(loads) :
               /\ loads[k].stack # <<>>
               /\ Top(loads[k].stack).node = n
               /\ Top(loads[k].stack).pc = "elem"}

\* C25: during one collection the manifest-fetch flow is triggered at most
\* once, also when the document holds several link rel=manifest elements.
C25_ManifestFlowOnce == Cardinality(ManifestTriggers) <= 1

(***************************************************************************)
(* The request table, checked under SpecManifest, SpecQueue and SpecRoot.  *)
(***************************************************************************)

\* A handler invocation for the request id is running, suspended or queued.
InProcess(id) ==
    \/ \E t \in tasks : t.requestId = id
    \/ \E i \in 1..Len(pending) : pending[i].requestId = id

\* Every response-received and loading-failed event delivered for the id
\* has been processed to the end.
FullyProcessed(id) ==
    /\ wire[id] \in {"responded", "failed"}
    /\ ~InProcess(id)

\* C26: the record of a request that is not the root's is removed from the
\* request table once its response-received or loading-failed event is
\* fully processed, a loading-failed event of type Manifest included.
C26_RecordRemovedWhenProcessed ==
    \A id \in RequestIds :
        (FullyProcessed(id) /\ requests[id] # NoRequest)
            => requests[id].url \in {href, finalHref}

\* The ids whose response was emitted as targetfetch::end.
TargetResponseIds ==
    {emitted[i].by.requestId : i \in Indexes("targetfetch::end")}

\* C27 (as claimed): the record of the target is not deleted when the
\* target's response is received: it leaves the request table only once the
\* page has errored or the page-load handler has run.
C27_TargetRecordPersists ==
    [][\A id \in RequestIds :
          (/\ requests[id].url = href
           /\ requests'[id] = NoRequest)
              => (errorWithPage \/ loads # <<>>)]_vars

\* C27 (amended): the record of the target is deleted when the handler of
\* its response ends, like any other record; the loading-failed handler is
\* the one that keeps it: for the target it sets the page-error flag and
\* leaves the request table as it is.
C27_TargetRecordDeletedOnResponse ==
    /\ [](\A id \in TargetResponseIds :
             ~(\E t \in tasks : t.requestId = id /\ t.kind = "response")
                 => requests[id] = NoRequest)
    /\ [][(errorWithPage' /\ ~errorWithPage) => requests' = requests]_vars

\* The target was answered before the page-load event and its record is
\* gone.
C27_Witness ==
    /\ TargetResponseIds = {1}
    /\ tasks = {}
    /\ requests[1] = NoRequest
    /\ ~errorWithPage
    /\ loads = <<>>

\* C28: a loading-failed event whose requestId is not in the request table
\* emits no event and leaves the request table, the pending queue, the
\* redirect tracker and the page-error flag as they are.
C28_UnknownFailureIsSkipped ==
    [][\A t \in tasks :
          (/\ t.kind = "failed" /\ t.pc = "start"
           /\ requests[t.requestId] = NoRequest)
              => /\ t \notin tasks'
                 /\ emitted' = emitted
                 /\ requests' = requests
                 /\ pending' = pending
                 /\ redirects' = redirects
                 /\ errorWithPage' = errorWithPage]_vars

\* The target failed after its response was processed: the failure found no
\* record and the page is not flagged.
C28_Witness ==
    /\ wire[1] = "failed"
    /\ TargetResponseIds = {1}
    /\ tasks = {} /\ pending = <<>>
    /\ requests[1] = NoRequest
    /\ ~errorWithPage

\* The terminal events: an end or an error.
TerminalNames == EndNames \cup {"fetch::error", "targetfetch::error",
                                "manifestfetch::error"}

\* The terminal events emitted for a request id.
TerminalEvents(id) ==
    {i \in 1..Len(emitted) :
        /\ emitted[i].name \in TerminalNames
        /\ emitted[i].by.requestId = id}

\* C29: whatever the interleaving of its response-received and
\* loading-failed events, at most one terminal event is emitted for a
\* request id: one end or one error, never both, never one twice.
C29_OneTerminalEvent ==
    \A id \in RequestIds : Cardinality(TerminalEvents(id)) <= 1

(***************************************************************************)
(* The target's network data, checked under SpecRepeat.                    *)
(***************************************************************************)

\* C30: the target network data is set at most once per collection: after
\* the first targetfetch::end no later response-received event changes it.
C30_TargetDataSetOnce == Len(targetNetworkData) <= 1

(***************************************************************************)
(* The final URL of the target, checked under SpecRedir.                   *)
(***************************************************************************)

\* The redirect chain that ends at u starts at the target.
ChainFromTarget(red, u) ==
    \/ u = href
    \/ /\ ~Cyclic(red, u)
       /\ Len(RedirectCalculate(red, u)) > 0
       /\ RedirectCalculate(red, u)[1] = href

\* C31: a request-sent event that records a redirect to B from the target,
\* or from the last URL of a chain of redirects that starts at the target,
\* leaves finalHref equal to B.
C31_FinalHrefFollowsRedirect ==
    [][\A p \in redirects' \ redirects :
          (p[1] # href /\ ChainFromTarget(redirects, p[2]))
              => finalHref' = p[1]]_vars

(***************************************************************************)
(* The classes of responses, checked under SpecClassify.                   *)
(***************************************************************************)

\* The response is the target's: lines 419-428.
IsTargetResponse(type, url) ==
    /\ type # "Manifest"
    /\ OriginalUrl(calculate(url), url) = href

\* The step a response-received invocation takes from its start.
ResponseStartStep(t) ==
    IF IsTargetResponse(t.type, t.url)
    THEN /\ pending' = pending
         /\ \/ \E u \in tasks' :
                  /\ u.seq = t.seq /\ u.pc = "body"
                  /\ u.eventName = "targetfetch::end"
                  /\ u.element = 0 /\ ~u.queued
            \/ /\ Len(emitted') = Len(emitted) + 1
               /\ emitted'[Len(emitted')].name = "targetfetch::end"
               /\ emitted'[Len(emitted')].by.seq = t.seq
    ELSE dom = "none" =>
            /\ pending' = Append(pending, [t EXCEPT !.queued = TRUE])
            /\ emitted' = emitted
            /\ ~\E u \in tasks' : u.seq = t.seq

\* What the emitted end events record.
EndEventsClassified ==
    \A i \in 1..Len(emitted) :
        LET e == emitted[i]
        IN  (e.by.kind = "response" /\ e.name \in EndNames) =>
               /\ e.name = (IF e.by.type = "Manifest" THEN "manifestfetch::end"
                            ELSE IF e.requrl = href THEN "targetfetch::end"
                            ELSE "fetch::end")
               /\ e.name = "targetfetch::end" => (e.element = 0 /\ ~e.by.queued)
               /\ (e.name # "targetfetch::end" /\ e.by.atDom = "none")
                     => e.by.queued

\* A response whose handler is over was emitted.
ResponsesEmitted ==
    \A id \in RequestIds :
        (wire[id] = "responded" /\ ~InProcess(id)) => TerminalEvents(id) # {}

\* C32: a response-received event for the target (original URL equal to the
\* target's, type not Manifest) is never queued: it is classified
\* targetfetch::end, processed at once with a null element whether or not
\* the DOM exists, and emitted; any other response is classified
\* manifestfetch::end for type Manifest and fetch::end otherwise, and is
\* queued with nothing emitted while the DOM does not exist.
C32_TargetResponseNeverQueued ==
    /\ [](EndEventsClassified /\ ResponsesEmitted)
    /\ [][\A t \in tasks :
             (t.kind = "response" /\ t.pc = "start") => ResponseStartStep(t)]_vars

\* The target's response was emitted before any page-load event.
C32_Witness ==
    /\ TargetResponseIds = {1}
    /\ loads = <<>>
    /\ pending = <<>>
    /\ tasks = {}

(***************************************************************************)
(* Element correlation, checked under SpecElement.                         *)
(***************************************************************************)

\* The cases of the claim: the request is unknown, its initiator is neither
\* the parser nor "other", or its original URL is not an http one.
Uncorrelatable(id) ==
    \/ requests[id] = NoRequest
    \/ requests[id].initiator \notin {"parser", "other"}
    \/ ~IsHttp(OriginalUrl(calculate(requests[id].url), requests[id].url))

\* A scenario whose request is in one of these cases from start to end.
UncorrelatableScenario ==
    \A q \in scn.requests : q.initiator = "script" \/ ~IsHttp(q.url)

\* The step a response or loading-failed invocation takes from its start
\* when the element cannot be looked up: no query, and what is emitted or
\* carried on has a null element.
NoQueryStep(t) ==
    /\ \A u \in tasks' : u.seq = t.seq => (u.pc # "elem" /\ u.element = 0)
    /\ emitted' # emitted => emitted'[Len(emitted')].element = 0

\* C33: element correlation returns no element when the request is unknown,
\* when its initiator type is neither parser nor other, or when the original
\* URL is not an http one; no DOM query is made then, and the event is still
\* emitted, with a null element.
C33_NoElementWithoutQuery ==
    /\ [][\A t \in tasks :
             (/\ t.kind \in {"response", "failed"} /\ t.pc = "start"
              /\ Uncorrelatable(t.requestId))
                 => NoQueryStep(t)]_vars
    /\ [](UncorrelatableScenario =>
             /\ \A t \in tasks : t.pc # "elem"
             /\ \A i \in 1..Len(emitted) : emitted[i].element = 0
             /\ ResponsesEmitted)

\* The response to a script's request was emitted on the loaded document,
\* with no element.
C33_Witness ==
    /\ \E q \in scn.requests : q.initiator = "script"
    /\ \E i \in 1..Len(emitted) :
          /\ emitted[i].name = "fetch::end"
          /\ emitted[i].by.atDom = "loaded"
          /\ emitted[i].element = 0

(***************************************************************************)
(* The search for the element of a URL, checked under SpecParser.          *)
(***************************************************************************)

CorrDone == corr.out # CorrUnset

\* The suffix of the URL made of its last k parts.
RECURSIVE Suffix(_, _)
Suffix(parts, k) ==
    IF k = 1 THEN parts[Len(parts)]
    ELSE parts[Len(parts) - k + 1] \o <<"/">> \o Suffix(parts, k - 1)

\* The elements whose src or href ends with that suffix, in document order.
MatchSet(k) == querySelectorAll(corr.doc, Suffix(corr.parts, k))

\* The first suffix length at which the search stops: fewer than two
\* elements match; 0 when every suffix matches several.
StopsAt ==
    LET stops == {k \in 1..Len(corr.parts) : Len(MatchSet(k)) < 2}
    IN  IF stops = {} THEN 0
        ELSE CHOOSE k \in stops : \A j \in stops : k <= j

\* The element the claim gives.
ClaimedElement ==
    IF StopsAt = 0 THEN MatchSet(Len(corr.parts))[1]
    ELSE IF Len(MatchSet(StopsAt)) = 1 THEN MatchSet(StopsAt)[1]
    ELSE IF StopsAt = 1 THEN 0
    ELSE MatchSet(StopsAt - 1)[1]

\* C34: the search tries the suffixes of the URL made of its trailing parts,
\* from the shortest to the longest, and returns the one matching element as
\* soon as exactly one element's src or href ends with the suffix, the first
\* element of the previous match set when a longer suffix matches none, the
\* first element of the last match set when all parts are used, and no
\* element when the shortest suffix matches none.
C34_SuffixSearch ==
    CorrDone =>
        /\ corr.out.element = ClaimedElement
        /\ corr.out.queries =
              [k \in 1..(IF StopsAt = 0 THEN Len(corr.parts) ELSE StopsAt) |->
                  Suffix(corr.parts, k)]

\* Several elements end with the last part, none with the last two: the
\* first of the several is returned, and it is not the first of the page.
C34_Witness ==
    /\ CorrDone
    /\ Len(corr.parts) = 3
    /\ Len(MatchSet(1)) = 2
    /\ MatchSet(2) = <<>>
    /\ corr.out.element = MatchSet(1)[1]
    /\ corr.out.element > 1

(***************************************************************************)
(* The completion callback, checked under SpecReload.                      *)
(***************************************************************************)

\* C35: the completion callback of one collect call is invoked at most once,
\* whatever the attach, enable, navigation and root-page failures and however
\* many page-load events there are.
C35_CallbackAtMostOnce == Len(callbacks) <= 1

(***************************************************************************)
(* The events of the loading-failed handler, checked under SpecFailure.    *)
(***************************************************************************)

\* The step a loading-failed invocation takes for the target: lines 262-266.
RootFailureStep(t) ==
    /\ errorWithPage'
    /\ t \notin tasks'
    /\ emitted' = emitted
    /\ requests' = requests
    /\ pending' = pending

\* C36: the connector never emits targetfetch::error: a loading failure of
\* the target only sets the page-error flag, and every error event of the
\* loading-failed handler is fetch::error or manifestfetch::error.
C36_NoTargetFetchError ==
    /\ [](\A i \in 1..Len(emitted) :
             /\ emitted[i].name # "targetfetch::error"
             /\ emitted[i].by.kind = "failed"
                   => emitted[i].name \in {"fetch::error", "manifestfetch::error"})
    /\ [][\A t \in tasks :
             (/\ t.kind = "failed" /\ t.pc = "start"
              /\ requests[t.requestId] # NoRequest
              /\ requests[t.requestId].url \in {href, finalHref})
                 => RootFailureStep(t)]_vars

\* The target failed on the loaded document: the page is flagged and no
\* error event was emitted.
C36_Witness ==
    /\ wire[1] = "failed"
    /\ requests[1].url = href
    /\ errorWithPage
    /\ dom = "loaded"
    /\ tasks = {}
    /\ \A i \in 1..Len(emitted) : emitted[i].by.kind # "failed"

(***************************************************************************)
(* Termination of the page-load handler, checked under SpecDrain.          *)
(***************************************************************************)

\* C37: once the page-load event has fired, and every protocol round trip
\* and emitter call returning, the load handler eventually invokes the
\* completion callback: the drain of the pending queue ends, since a
\* replayed event is never queued again, and so does the traversal.
C37_LoadHandlerCompletes ==
    /\ (loads # <<>>) ~> (callbacks # <<>>)
    /\ [][Len(pending') > Len(pending) => dom = "none"]_vars

\* A queued event was replayed and emitted, the page with a manifest link
\* was traversed and the collection completed.
C37_Witness ==
    /\ callbacks = <<"ok">>
    /\ scn.tree = ManifestPage
    /\ TraverseDone
    /\ \E i \in 1..Len(emitted) : emitted[i].by.queued

=============================================================================
